---- MODULE Spec2Model ----
(***************************************************************************)
(* State-machine model of the S3 restructuring scripts of RosieImageSync:  *)
(*   restructure_s3_with_csv.py  (address matching, rename / delete plan)  *)
(*   redistribute_s3_images.py   (per-file move plan)                      *)
(* Strings are sequences of one-character strings, so that the text        *)
(* transformations of the scripts are computed character by character.     *)
(***************************************************************************)
EXTENDS Integers, Sequences, FiniteSets, TLC

(***************************************************************************)
(* Python string primitives                                                *)
(***************************************************************************)

\* str.startswith at the head of s
StartsWith(s, p) ==
  /\ Len(s) >= Len(p)
  /\ SubSeq(s, 1, Len(p)) = p

\* str.replace(old, new): left to right, non-overlapping occurrences
RECURSIVE Replace(_, _, _)
Replace(s, old, new) ==
  IF Len(s) < Len(old) THEN s
  ELSE IF StartsWith(s, old)
       THEN new \o Replace(SubSeq(s, Len(old) + 1, Len(s)), old, new)
       ELSE <<Head(s)>> \o Replace(Tail(s), old, new)

\* `sub in s` for strings
Contains(s, sub) ==
  \E i \in 1..(Len(s) - Len(sub) + 1) : SubSeq(s, i, i + Len(sub) - 1) = sub

\* index of the first occurrence of character c in s at or after position from, 0 if none
RECURSIVE IndexFrom(_, _, _)
IndexFrom(s, c, from) ==
  IF from > Len(s) THEN 0
  ELSE IF s[from] = c THEN from
  ELSE IndexFrom(s, c, from + 1)

\* re.sub(r'\([^)]*\)', '', s): leftmost '(' that is followed by a ')', up to the first ')'
RECURSIVE RemoveParens(_)
RemoveParens(s) ==
  LET i == IndexFrom(s, "(", 1)
      j == IF i = 0 THEN 0 ELSE IndexFrom(s, ")", i + 1)
  IN IF i = 0 \/ j = 0 THEN s
     ELSE SubSeq(s, 1, i - 1) \o RemoveParens(SubSeq(s, j + 1, Len(s)))

\* ' '.join(s.split()): whitespace runs collapse to one space, ends trimmed
RECURSIVE LStrip(_)
LStrip(s) == IF s # <<>> /\ Head(s) = " " THEN LStrip(Tail(s)) ELSE s

RECURSIVE JoinSplit(_)
JoinSplit(s) ==
  LET t == LStrip(s)
      sp == IndexFrom(t, " ", 1)
  IN IF t = <<>> THEN <<>>
     ELSE IF sp = 0 THEN t
     ELSE LET rest == JoinSplit(SubSeq(t, sp, Len(t)))
          IN IF rest = <<>> THEN SubSeq(t, 1, sp - 1)
             ELSE SubSeq(t, 1, sp - 1) \o <<" ">> \o rest

\* str.lower() on the characters the model uses
LowerChar(c) ==
  CASE c = "A" -> "a" [] c = "B" -> "b" [] c = "C" -> "c" [] c = "D" -> "d"
    [] c = "E" -> "e" [] c = "F" -> "f" [] c = "G" -> "g" [] c = "H" -> "h"
    [] c = "I" -> "i" [] c = "J" -> "j" [] c = "K" -> "k" [] c = "L" -> "l"
    [] c = "M" -> "m" [] c = "N" -> "n" [] c = "O" -> "o" [] c = "P" -> "p"
    [] c = "Q" -> "q" [] c = "R" -> "r" [] c = "S" -> "s" [] c = "T" -> "t"
    [] c = "U" -> "u" [] c = "V" -> "v" [] c = "W" -> "w" [] c = "X" -> "x"
    [] c = "Y" -> "y" [] c = "Z" -> "z" [] OTHER -> c

Lower(s) == [i \in 1..Len(s) |-> LowerChar(s[i])]

(***************************************************************************)
(* restructure_s3_with_csv.normalize_address                               *)
(***************************************************************************)
Chain(s, pairs) ==
  LET RECURSIVE go(_, _)
      go(t, k) == IF k > Len(pairs) THEN t
                  ELSE go(Replace(t, pairs[k][1], pairs[k][2]), k + 1)
  IN go(s, 1)

NormalizeRules ==
  << \* line 26
     << <<" ","c","o","p","y">>, <<>> >>,
     << <<"*","*">>, <<>> >>,
     << <<"*">>, <<>> >>,
     \* line 29
     << <<" ","S","t",",">>, <<" ","S","t","r","e","e","t",",">> >>,
     << <<" ","S","t"," ">>, <<" ","S","t","r","e","e","t"," ">> >>,
     << <<" ","S","t",".">>, <<" ","S","t","r","e","e","t">> >>,
     \* line 30
     << <<" ","A","v","e",",">>, <<" ","A","v","e","n","u","e",",">> >>,
     << <<" ","A","v","e"," ">>, <<" ","A","v","e","n","u","e"," ">> >>,
     << <<" ","A","v","e",".">>, <<" ","A","v","e","n","u","e">> >>,
     \* line 31
     << <<" ","B","r","d","w","y">>, <<" ","B","r","o","a","d","w","a","y">> >>,
     << <<" ","B","l","v","d">>, <<" ","B","o","u","l","e","v","a","r","d">> >>,
     \* line 32
     << <<" ","P","l">>, <<" ","P","l","a","c","e">> >>,
     \* lines 35-36
     << <<" ","E"," ">>, <<" ","E","a","s","t"," ">> >>,
     << <<" ","W"," ">>, <<" ","W","e","s","t"," ">> >>,
     << <<" ","N"," ">>, <<" ","N","o","r","t","h"," ">> >>,
     << <<" ","S"," ">>, <<" ","S","o","u","t","h"," ">> >>,
     \* lines 39-41
     << <<"B","k","l","y","n">>, <<"B","r","o","o","k","l","y","n">> >>,
     << <<"Q","n","s">>, <<"Q","u","e","e","n","s">> >>,
     << <<"S","I">>, <<"S","t","a","t","e","n"," ","I","s","l","a","n","d">> >>,
     << <<"H","t","s">>, <<"H","e","i","g","h","t","s">> >>,
     << <<"D","o","w","n","t","'">>, <<"D","o","w","n","t","o","w","n">> >>,
     << <<"U","n"," ","S","q">>, <<"U","n","i","o","n"," ","S","q","u","a","r","e">> >>,
     << <<"U","n","S","q">>, <<"U","n","i","o","n"," ","S","q","u","a","r","e">> >> >>

\* variant of normalize_address: the whitespace is left as the removals made it
normalize_address_KeepsWhitespace(address) ==
  Replace(Replace(RemoveParens(Chain(address, NormalizeRules)), <<"#">>, <<>>), <<",">>, <<>>)

normalize_address(address) ==
  LET expanded == Chain(address, NormalizeRules)
      noparen  == RemoveParens(expanded)
      nospec   == Replace(Replace(noparen, <<"#">>, <<>>), <<",">>, <<>>)
  IN JoinSplit(nospec)

(***************************************************************************)
(* difflib.SequenceMatcher(None, a, b).ratio() as used by similarity_score *)
(* (no junk; the autojunk heuristic needs 200 or more characters).         *)
(* Positions are 1-based, ranges lo..hi are inclusive.                     *)
(***************************************************************************)

\* length of the common run of a and b that ends at a[i], b[j], inside alo.. and blo..
RECURSIVE RunEndingAt(_, _, _, _, _, _)
RunEndingAt(a, b, i, j, alo, blo) ==
  IF i < alo \/ j < blo THEN 0
  ELSE IF a[i] # b[j] THEN 0
  ELSE 1 + RunEndingAt(a, b, i - 1, j - 1, alo, blo)

\* of the end positions Cand of the longest blocks, the block that starts earliest in a
\* and, of those, earliest in b
EarliestBlock(Cand, size) ==
  LET first == CHOOSE e \in Cand :
                 \A f \in Cand : e[1] < f[1] \/ (e[1] = f[1] /\ e[2] <= f[2])
  IN <<first[1] - size + 1, first[2] - size + 1, size>>

\* K[e] is the length of the common run ending at e; best is the largest of them
LongestBlock(K, best, alo, blo) ==
  IF best = 0 THEN <<alo, blo, 0>>
  ELSE EarliestBlock({e \in DOMAIN K : K[e] = best}, best)

MaxOf(S) == CHOOSE m \in S : \A n \in S : n <= m

RunTable(a, b, alo, ahi, blo, bhi) ==
  [e \in (alo..ahi) \X (blo..bhi) |-> RunEndingAt(a, b, e[1], e[2], alo, blo)]

SizesOf(K) == {K[e] : e \in DOMAIN K} \cup {0}

LongestIn(K, alo, blo) == LongestBlock(K, MaxOf(SizesOf(K)), alo, blo)

\* find_longest_match: the longest block; of those the one earliest in a, then earliest in b
find_longest_match(a, b, alo, ahi, blo, bhi) ==
  LongestIn(RunTable(a, b, alo, ahi, blo, bhi), alo, blo)

\* get_matching_blocks, summed: the number of matched characters; <<i, j, k>> is the
\* longest block of a[alo..ahi], b[blo..bhi], the blocks left and right of it are added
RECURSIVE MatchedChars(_, _, _, _, _, _)
BlocksAround(a, b, alo, ahi, blo, bhi, i, j, k) ==
  IF k = 0 THEN 0
  ELSE k
       + (IF alo < i /\ blo < j THEN MatchedChars(a, b, alo, i - 1, blo, j - 1) ELSE 0)
       + (IF i + k <= ahi /\ j + k <= bhi
            THEN MatchedChars(a, b, i + k, ahi, j + k, bhi) ELSE 0)

SplitAt(a, b, alo, ahi, blo, bhi, m) ==
  BlocksAround(a, b, alo, ahi, blo, bhi, m[1], m[2], m[3])

MatchedChars(a, b, alo, ahi, blo, bhi) ==
  SplitAt(a, b, alo, ahi, blo, bhi, find_longest_match(a, b, alo, ahi, blo, bhi))

\* A score is the exact fraction num/den of the float the code computes.
Score(n, d) == [num |-> n, den |-> d]
ScoreZero == Score(0, 1)
ScoreOne == Score(1, 1)
ScoreGT(x, y) == x.num * y.den > y.num * x.den
ScoreGE(x, y) == x.num * y.den >= y.num * x.den
ScoreEQ(x, y) == x.num * y.den = y.num * x.den

\* ratio(): 2.0 * matches / length, 1.0 when both strings are empty
ratio(a, b) ==
  IF Len(a) + Len(b) = 0 THEN ScoreOne
  ELSE Score(2 * MatchedChars(a, b, 1, Len(a), 1, Len(b)), Len(a) + Len(b))

similarity_score(str1, str2) == ratio(Lower(str1), Lower(str2))


(***************************************************************************)
(* Python values                                                           *)
(***************************************************************************)
\* None: a value no string equals (a string is a sequence of single characters)
None == <<"None">>

\* truthiness of an optional string: None and "" are falsy
Truthy(v) == v # None /\ v # <<>>

RECURSIVE RStrip(_)
RStrip(s) == IF s # <<>> /\ s[Len(s)] = " " THEN RStrip(SubSeq(s, 1, Len(s) - 1)) ELSE s

\* str.strip()
Strip(s) == RStrip(LStrip(s))

AsciiOrder ==
  <<" ","#","'","(",")","*","+",",","-",".","/","0","1","2","3","4","5","6","7","8","9",
    ":","A","B","C","D","E","F","G","H","I","J","K","L","M","N","O","P","Q","R","S","T",
    "U","V","W","X","Y","Z","_","a","b","c","d","e","f","g","h","i","j","k","l","m","n",
    "o","p","q","r","s","t","u","v","w","x","y","z","|">>

Ord(c) == CHOOSE i \in 1..Len(AsciiOrder) : AsciiOrder[i] = c

\* str < str: lexicographic by code point
RECURSIVE StrLess(_, _)
StrLess(a, b) ==
  IF b = <<>> THEN FALSE
  ELSE IF a = <<>> THEN TRUE
  ELSE IF Head(a) = Head(b) THEN StrLess(Tail(a), Tail(b))
  ELSE Ord(Head(a)) < Ord(Head(b))

\* sorted(set of strings)
RECURSIVE SortedStrs(_)
SortedStrs(S) ==
  IF S = {} THEN <<>>
  ELSE LET m == CHOOSE x \in S : \A y \in S \ {x} : StrLess(x, y)
       IN <<m>> \o SortedStrs(S \ {m})

IsDigit(c) == c \in {"0","1","2","3","4","5","6","7","8","9"}

\* int(s) succeeds: surrounding whitespace, one optional sign, digits with single
\* underscores between digits
IsInt(s) ==
  LET t == Strip(s)
      body == IF t # <<>> /\ Head(t) \in {"+", "-"} THEN Tail(t) ELSE t
  IN /\ body # <<>>
     /\ IsDigit(body[1])
     /\ IsDigit(body[Len(body)])
     /\ \A i \in 1..Len(body) : IsDigit(body[i]) \/ body[i] = "_"
     /\ \A i \in 1..(Len(body) - 1) : ~(body[i] = "_" /\ body[i + 1] = "_")

(***************************************************************************)
(* Names used by the scripts and by the modelled inputs                    *)
(***************************************************************************)
DELETE == <<"D","E","L","E","T","E">>
EXACT == <<"e","x","a","c","t">>
MANUAL_OVERRIDE == <<"m","a","n","u","a","l","_","o","v","e","r","r","i","d","e">>
MANUAL_DELETION == <<"m","a","n","u","a","l","_","d","e","l","e","t","i","o","n">>

neighborhoods == <<"Brooklyn | Queens", "UnSQ:Gren'Villl.">>

\* folder names of the modelled bucket
F_25 == <<"2","5">>
F_9Oak == <<"9"," ","O","a","k">>
F_7Em == <<"7"," ","E","m",","," ","B","l","v","d">>
F_12Main == <<"1","2"," ","M","a","i","n"," ","R","d">>
F_OldDup == <<"O","l","d"," ","D","u","p">>
F_5E == <<"5"," ","E",","," ","4","t","h">>

\* addresses and deal ids of the modelled CSV exports
A_9Oak == <<"9"," ","O","a","k">>
A_9OakStar == <<" ","*","9"," ","O","a","k","*"," ">>
A_7Em == <<"7"," ","E","m",","," ","B","o","u","l","e","v","a","r","d">>
A_19Main == <<"1","9"," ","M","a","i","n"," ","S","t">>
A_17Main == <<"1","7"," ","M","a","i","n"," ","S","t">>
A_12Main == <<"1","2"," ","M","a","i","n"," ","S","t">>
A_99Main == <<"9","9"," ","M","a","i","n"," ","S","t">>
A_5E4th == <<"5"," ","E"," ","4","t","h">>
A_5Ec4th == <<"5"," ","E",","," ","4","t","h">>
ID_25 == <<"2","5">>
ID_31 == <<"3","1">>
ID_32 == <<"3","2">>
ID_40 == <<"4","0">>
ID_41 == <<"4","1">>
ID_42 == <<"4","2">>
ID_50 == <<"5","0">>
ID_51 == <<"5","1">>

\* image URLs of the 'Deal - Picture N' columns and values of 'Deal - Neighborhood (primary)'
U_a == <<"h","t","t","p","s",":","/","/","h","/","x","/","a",".","j","p","g">>
U_b == <<"b",".","j","p","g">>
U_bq == <<"h","t","t","p","s",":","/","/","h","/","b",".","j","p","g","?","v","=","1">>
N_Brooklyn == <<"B","r","o","o","k","l","y","n">>
N_Chelsea == <<"C","h","e","l","s","e","a","/","P","e","n","n">>
N_Harlem == <<"H","a","r","l","e","m">>

\* a CSV row: the columns the scripts read; pictures[n] is 'Deal - Picture n' ("" when empty)
Row(id, addr, nbhd, pics) ==
  [id |-> id, address |-> addr, neighborhood |-> nbhd, pictures |-> pics]

\* the CSV exports a run may be given (row order is file order)
CsvChoices ==
  { << Row(ID_31, A_9Oak, N_Chelsea, <<U_b>>), Row(ID_25, A_7Em, N_Brooklyn, <<U_a>>),
       Row(ID_40, A_19Main, N_Harlem, <<>>), Row(ID_41, A_17Main, N_Brooklyn, <<<<>>, U_a>>) >>,
    << Row(ID_41, A_17Main, N_Harlem, <<U_a>>), Row(ID_40, A_19Main, N_Brooklyn, <<U_bq>>),
       Row(ID_31, A_9OakStar, N_Chelsea, <<U_a, U_b>>),
       Row(ID_50, A_5E4th, N_Chelsea, <<>>), Row(ID_51, A_5Ec4th, N_Chelsea, <<>>) >>,
    << Row(ID_42, A_99Main, N_Brooklyn, <<>>), Row(<<>>, A_7Em, N_Brooklyn, <<U_b>>),
       Row(ID_31, A_9Oak, N_Chelsea, <<U_a>>), Row(ID_32, A_9Oak, N_Brooklyn, <<U_a>>),
       Row(ID_51, A_5Ec4th, N_Chelsea, <<>>), Row(ID_50, A_5E4th, N_Chelsea, <<>>) >>,
    << Row(ID_25, A_12Main, N_Brooklyn, <<U_a>>), Row(ID_31, A_9Oak, N_Chelsea, <<U_b>>),
       Row(DELETE, F_OldDup, N_Brooklyn, <<>>) >> }

NoOverrides == [f \in {} |-> <<>>]

\* the manual overrides a run may be given (a dict folder name -> deal id or "DELETE")
OverrideChoices ==
  { NoOverrides,
    [f \in {F_12Main, F_OldDup, F_25} |->
       IF f = F_12Main THEN ID_25 ELSE IF f = F_OldDup THEN DELETE ELSE ID_31],
    [f \in {F_OldDup} |-> DELETE] }

(***************************************************************************)
(* restructure_s3_with_csv: reference index and match resolution           *)
(***************************************************************************)

\* variant of DictPut: an existing key keeps its first value
DictPut_KeepsFirst(d, k, v) ==
  IF \E i \in 1..Len(d) : d[i][1] = k THEN d ELSE Append(d, <<k, v>>)

\* dict[key] = value on an insertion-ordered dict kept as a sequence of <<key, value>>:
\* an existing key keeps its position and takes the new value
DictPut(d, k, v) ==
  IF \E i \in 1..Len(d) : d[i][1] = k
  THEN [i \in 1..Len(d) |-> IF d[i][1] = k THEN <<k, v>> ELSE d[i]]
  ELSE Append(d, <<k, v>>)

DictHas(d, k) == \E i \in 1..Len(d) : d[i][1] = k

DictGet(d, k) == d[CHOOSE i \in 1..Len(d) : d[i][1] = k][2]

RECURSIVE LoadRows(_, _)
LoadRows(rows, mapping) ==
  IF rows = <<>> THEN mapping
  ELSE LET deal_id == Strip(Head(rows).id)
           address == Strip(Head(rows).address)
           address_clean == Replace(Replace(address, <<"*","*">>, <<>>), <<"*">>, <<>>)
       IN IF deal_id # <<>> /\ address # <<>>
          THEN LoadRows(Tail(rows), DictPut(mapping, address_clean, deal_id))
          ELSE LoadRows(Tail(rows), mapping)

load_csv_mapping(rows) == LoadRows(rows, <<>>)

\* the folder names and index keys of the modelled inputs; the two tables hold the
\* values of normalize_address and similarity_score on them, each computed once
FolderNames == {F_25, F_9Oak, F_7Em, F_12Main, F_OldDup, F_5E}

IndexKeys ==
  UNION { {load_csv_mapping(c)[i][1] : i \in 1..Len(load_csv_mapping(c))} : c \in CsvChoices }

\* normalize_address of every folder name and index key, computed once
Normalized == { <<s, normalize_address(s)>> : s \in FolderNames \cup IndexKeys }

NormTable == [s \in FolderNames \cup IndexKeys |-> (CHOOSE t \in Normalized : t[1] = s)[2]]

NormalizedFolders == { t[2] : t \in { n \in Normalized : n[1] \in FolderNames } }

NormalizedKeys == { t[2] : t \in { n \in Normalized : n[1] \in IndexKeys } }

\* similarity_score of every normalized folder name and normalized index key, computed once
Similarities ==
  { <<p, similarity_score(p[1], p[2])>> : p \in NormalizedFolders \X NormalizedKeys }

SimTable ==
  [p \in NormalizedFolders \X NormalizedKeys |-> (CHOOSE t \in Similarities : t[1] = p)[2]]

Result(deal_id, score, matched) ==
  [deal_id |-> deal_id, score |-> score, matched_address |-> matched]

\* variant of BetterOf: an entry that equals the best score so far replaces it
BetterOf_LastOfTies(best, deal_id, score, csv_address) ==
  IF ScoreGE(score, best.score) THEN Result(deal_id, score, csv_address) ELSE best

\* lines 97-100: the running best after an entry with the given score
BetterOf(best, deal_id, score, csv_address) ==
  IF ScoreGT(score, best.score) THEN Result(deal_id, score, csv_address) ELSE best

\* lines 94-95 for one entry of the index
EntryScore(normalized_folder, csv_address) ==
  SimTable[<<normalized_folder, NormTable[csv_address]>>]

\* the fuzzy scan of find_best_match (lines 89-100): best is <<best_match, best_score,
\* best_address>> so far
RECURSIVE FuzzyScan(_, _, _, _)
FuzzyScan(normalized_folder, csv_mapping, i, best) ==
  IF i > Len(csv_mapping) THEN best
  ELSE FuzzyScan(normalized_folder, csv_mapping, i + 1,
                 BetterOf(best, csv_mapping[i][2],
                          EntryScore(normalized_folder, csv_mapping[i][1]),
                          csv_mapping[i][1]))

Threshold == Score(7, 10)

\* variant of AcceptBest: the best score has to exceed the threshold
AcceptBest_StrictThreshold(best) ==
  IF ScoreGT(best.score, Threshold) THEN best ELSE Result(None, ScoreZero, None)

\* lines 103-106
AcceptBest(best) ==
  IF ScoreGE(best.score, Threshold) THEN best ELSE Result(None, ScoreZero, None)

\* lines 76-80
OverrideResult(deal_id) ==
  IF deal_id = DELETE
  THEN Result(DELETE, ScoreOne, MANUAL_DELETION)
  ELSE Result(deal_id, ScoreOne, MANUAL_OVERRIDE)

\* lines 84-106
MatchNormalized(normalized_folder, csv_mapping) ==
  IF DictHas(csv_mapping, normalized_folder)
  THEN Result(DictGet(csv_mapping, normalized_folder), ScoreOne, EXACT)
  ELSE AcceptBest(FuzzyScan(normalized_folder, csv_mapping, 1, Result(None, ScoreZero, None)))

\* variant of find_best_match: the overrides are consulted only when the index gives no match
find_best_match_OverrideLast(folder_name, csv_mapping, manual_overrides) ==
  IF folder_name \in DOMAIN manual_overrides
       /\ MatchNormalized(NormTable[folder_name], csv_mapping).deal_id = None
  THEN OverrideResult(manual_overrides[folder_name])
  ELSE MatchNormalized(NormTable[folder_name], csv_mapping)

find_best_match(folder_name, csv_mapping, manual_overrides) ==
  IF folder_name \in DOMAIN manual_overrides
  THEN OverrideResult(manual_overrides[folder_name])
  ELSE MatchNormalized(NormTable[folder_name], csv_mapping)

(***************************************************************************)
(* The bucket.  An object key 'Neighborhood Listing Images/<nb>/<folder>/  *)
(* <rel>' is the record [nb, folder, rel]; bucket maps each key present to *)
(* its content, named by the key the content was first stored under.       *)
(***************************************************************************)
MaxFolders == 2
MaxObjs == 2
MaxRuns == 2
MaxFaults == 1

\* relative paths inside a folder, in the order a listing returns them
RelUniverse ==
  << <<"a",".","j","p","g">>, <<"b",".","j","p","g">>, <<"c",".","j","p","g">>,
     <<"d",".","j","p","g">> >>

Key(nb, folder, rel) == [nb |-> nb, folder |-> folder, rel |-> rel]

VARIABLES
  bucket,            \* the objects of BUCKET_NAME: key -> content
  csv_rows,          \* the rows of the CSV export (input of the run)
  manual_overrides,  \* the operator's overrides (input of the run)
  entry,             \* what is run: "main" (restructure_s3_with_csv __main__),
                     \* "execute_restructure" (analyze_and_map, then execute_restructure
                     \* with the dry_run flag), "redistribution" (redistribute_s3_images:
                     \* plan, then execute_redistribution with the dry_run flag)
  dry_run,           \* the dry_run argument of the executor
  pure,              \* a call of a pure function on its own: the function, its
                     \* arguments and the values returned
  config,            \* the configuration found by the run: "ok", "no_csv" (the export
                     \* file is missing), "no_credentials" (no storage credentials)
  run,               \* number of the current run of the program
  pc,                \* position of the program
  mappings,          \* the plan: sequence of [nb, folder, mapping] in dict order
  resolved,          \* history: the find_best_match calls, [folder, result]
  idx,               \* position of execute_restructure in mappings
  objects,           \* keys listed by the current rename_s3_folder / delete_s3_folder call
  oi,                \* position in objects of the current copy or delete loop
  calls,             \* history: one record per rename_s3_folder / delete_s3_folder call
  ops,               \* history: the copy_object / delete_object calls that succeeded
  faults,            \* history: the exceptions and kills, with the position they hit
  moves,             \* the plan of create_redistribution_plan
  mi,                \* position of execute_redistribution in moves
  web                \* the call of the web service in progress: the request, the CRM
                     \* and website data it works on, its position and what it did

vars == <<bucket, csv_rows, manual_overrides, entry, dry_run, config, pure, run, pc, mappings, resolved,
          idx, objects, oi, calls, ops, faults, moves, mi, web>>

\* list_neighborhood_folders: sorted names of the folders holding at least one object
list_neighborhood_folders(bkt, neighborhood) ==
  SortedStrs({k.folder : k \in {x \in DOMAIN bkt : x.nb = neighborhood}})

\* paginated list_objects_v2(Prefix = .../<nb>/<folder>/): the keys in listing order
RECURSIVE KeysInOrder(_)
KeysInOrder(S) ==
  IF S = {} THEN <<>>
  ELSE LET m == CHOOSE x \in S : \A y \in S \ {x} : StrLess(x.rel, y.rel)
       IN <<m>> \o KeysInOrder(S \ {m})

ListObjects(bkt, nb, folder) ==
  KeysInOrder({k \in DOMAIN bkt : k.nb = nb /\ k.folder = folder})

\* all_mappings[neighborhood][folder] = None (line 212), kept as a record so that it
\* compares with the mapping dicts; no mapping dict has a falsy deal_id
NoMapping == Result(None, ScoreZero, None)

\* variant of PlanEntry: a folder without a match gets no plan entry
PlanEntry_DropsUnmatched(nb, folder, r) ==
  [entries |-> IF r.deal_id = DELETE
               THEN << [nb |-> nb, folder |-> folder,
                        mapping |-> Result(DELETE, ScoreOne, MANUAL_DELETION)] >>
               ELSE IF Truthy(r.deal_id)
               THEN << [nb |-> nb, folder |-> folder, mapping |-> r] >>
               ELSE <<>>,
   resolver |-> { [folder |-> folder, result |-> r] }]

\* lines 194-212: the plan entry made from the value r of find_best_match, and the call
PlanEntry(nb, folder, r) ==
  [entries |-> << [nb |-> nb, folder |-> folder,
                   mapping |-> IF r.deal_id = DELETE
                               THEN Result(DELETE, ScoreOne, MANUAL_DELETION)
                               ELSE IF Truthy(r.deal_id) THEN r
                               ELSE NoMapping] >>,
   resolver |-> { [folder |-> folder, result |-> r] }]

Skipped == [entries |-> <<>>, resolver |-> {}]

Combine(h, t) ==
  [entries |-> h.entries \o t.entries, resolver |-> h.resolver \cup t.resolver]

\* variant of AnalyzeFolder: from the second run of the program on, the index is not
\* consulted
AnalyzeFolder_DependsOnRun(nb, folder, csv_mapping, overrides) ==
  IF IsInt(folder) THEN Skipped
  ELSE PlanEntry(nb, folder,
                 find_best_match(folder, IF run > 1 THEN <<>> ELSE csv_mapping, overrides))

\* variant of AnalyzeFolder: no skip of the folders that are already numeric
AnalyzeFolder_NoNumericSkip(nb, folder, csv_mapping, overrides) ==
  PlanEntry(nb, folder, find_best_match(folder, csv_mapping, overrides))

\* variant of AnalyzeFolder: a folder with an override is resolved before the numeric skip
AnalyzeFolder_OverrideFirst(nb, folder, csv_mapping, overrides) ==
  IF IsInt(folder) /\ folder \notin DOMAIN overrides
  THEN Skipped
  ELSE PlanEntry(nb, folder, find_best_match(folder, csv_mapping, overrides))

\* the body of the loop over folders in analyze_and_map (lines 182-212) for one folder:
\* the plan entries it adds (none when the folder is skipped) and the find_best_match
\* call it makes, with the value returned
AnalyzeFolder(nb, folder, csv_mapping, overrides) ==
  IF IsInt(folder) THEN Skipped
  ELSE PlanEntry(nb, folder, find_best_match(folder, csv_mapping, overrides))

RECURSIVE AnalyzeFolders(_, _, _, _)
AnalyzeFolders(nb, folders, csv_mapping, overrides) ==
  IF folders = <<>> THEN Skipped
  ELSE Combine(AnalyzeFolder(nb, Head(folders), csv_mapping, overrides),
               AnalyzeFolders(nb, Tail(folders), csv_mapping, overrides))

AnalyzeNeighborhood(bkt, nb, csv_mapping, overrides) ==
  AnalyzeFolders(nb, list_neighborhood_folders(bkt, nb), csv_mapping, overrides)

AnalyzeWith(bkt, csv_mapping, overrides) ==
  Combine(AnalyzeNeighborhood(bkt, neighborhoods[1], csv_mapping, overrides),
          AnalyzeNeighborhood(bkt, neighborhoods[2], csv_mapping, overrides))

\* analyze_and_map: entries is all_mappings flattened in dict order
analyze_and_map(bkt, rows, overrides) ==
  AnalyzeWith(bkt, load_csv_mapping(rows), overrides)

EightTenths == Score(8, 10)

\* display_summary: <<total_rename, total_delete, total_missing, total_low_confidence>>
display_summary(plan) ==
  LET I == 1..Len(plan)
      Mapped(i) == plan[i].mapping # NoMapping
  IN << Cardinality({i \in I : Mapped(i) /\ plan[i].mapping.deal_id # DELETE}),
        Cardinality({i \in I : Mapped(i) /\ plan[i].mapping.deal_id = DELETE}),
        Cardinality({i \in I : ~Mapped(i)}),
        Cardinality({i \in I : /\ Mapped(i)
                                 /\ plan[i].mapping.deal_id # DELETE
                                 /\ ~ScoreGE(plan[i].mapping.score, EightTenths)}) >>

\* line 293: the entry is skipped as a low-confidence match
LowConfidence(mapping) ==
  /\ ~ScoreGE(mapping.score, EightTenths)
  /\ mapping.matched_address \notin {MANUAL_OVERRIDE, MANUAL_DELETION}

Terminal == {"done", "raised", "killed"}

(***************************************************************************)
(* Initial states: a bucket of at most MaxFolders folders with at most     *)
(* MaxObjs objects each, one CSV export, one set of overrides.             *)
(***************************************************************************)
\* the folders of the initial bucket are at most MaxFolders neighbours in FolderOrder;
\* each of them holds the first n relative paths, 1 <= n <= MaxObjs
FolderOrder ==
  << <<neighborhoods[1], F_25>>, <<neighborhoods[1], F_12Main>>,
     <<neighborhoods[1], F_OldDup>>, <<neighborhoods[1], F_9Oak>>,
     <<neighborhoods[1], F_7Em>>, <<neighborhoods[2], F_5E>> >>

FolderSets ==
  { {FolderOrder[i] : i \in a..b} :
      <<a, b>> \in {w \in (1..Len(FolderOrder)) \X (0..Len(FolderOrder)) :
                     w[2] - w[1] < MaxFolders} }

BucketChoices ==
  { UNION { {Key(f[1], f[2], RelUniverse[i]) : i \in 1..n} : f \in S }
      : <<S, n>> \in FolderSets \X (1..MaxObjs) }

\* no pure function is called on its own
NoPureCall == [fn |-> "none", phase |-> "none", a |-> <<>>, b |-> <<>>, out |-> <<>>, again |-> <<>>]

\* the scripts make no call of the web service
NoRequest == [handler |-> "none"]

\* rename_s3_folder / delete_s3_folder called on their own
DirectCalls == {"rename_s3_folder", "delete_s3_folder"}

\* a direct call reads neither the CSV nor the overrides: one value stands for all
UnusedCsv == CHOOSE c \in CsvChoices : Len(c) = 3

Init ==
  /\ \E K \in BucketChoices : bucket = [k \in K |-> k]
  /\ csv_rows \in CsvChoices
  /\ manual_overrides \in OverrideChoices
  /\ entry \in {"main", "execute_restructure", "redistribution"} \cup DirectCalls
  /\ dry_run \in BOOLEAN
  /\ entry = "main" => dry_run = FALSE
  /\ config \in {"ok", "no_csv", "no_credentials"}
  /\ pure = NoPureCall
  /\ web = NoRequest
  /\ entry \notin {"main", "execute_restructure"} => config = "ok"
  /\ entry \in DirectCalls
       => dry_run = FALSE /\ manual_overrides = NoOverrides /\ csv_rows = UnusedCsv
  /\ run = 1
  /\ pc = "start"
  /\ mappings = <<>>
  /\ resolved = {}
  /\ idx = 0
  /\ objects = <<>>
  /\ oi = 0
  /\ calls = <<>>
  /\ ops = <<>>
  /\ faults = <<>>
  /\ moves = <<>>
  /\ mi = 0

Inputs == <<csv_rows, manual_overrides, entry, dry_run, config, pure, web>>
Redist == <<moves, mi>>
Restruct == <<mappings, resolved, idx, objects, oi, calls>>

(***************************************************************************)
(* restructure_s3_with_csv: __main__, analyze_and_map, execute_restructure *)
(***************************************************************************)

\* Step 1 of __main__ under a fatal configuration: open() in load_csv_mapping (line 61)
\* raises when the export is missing, the first listing of list_neighborhood_folders
\* (line 113) raises when there are no credentials; nothing handles the exception
ConfigFatal ==
  /\ pc = "start"
  /\ entry \in {"main", "execute_restructure"}
  /\ config # "ok"
  /\ faults' = Append(faults, [kind |-> config, phase |-> pc, call |-> Len(calls),
                               idx |-> idx, oi |-> oi, run |-> run])
  /\ pc' = "raised"
  /\ UNCHANGED <<bucket, Inputs, Redist, run, mappings, resolved, idx, objects, oi, calls, ops>>

\* variant of AnalyzeAndMap: the analysis removes the objects of the folders it marks
\* for deletion
AnalyzeAndMap_DeletesDeadFolders ==
  /\ pc = "start"
  /\ entry \in {"main", "execute_restructure"}
  /\ config = "ok"
  /\ mappings' = analyze_and_map(bucket, csv_rows, manual_overrides).entries
  /\ resolved' = resolved \cup analyze_and_map(bucket, csv_rows, manual_overrides).resolver
  /\ bucket' = [k \in {x \in DOMAIN bucket :
                         ~\E r \in resolved' : r.folder = x.folder /\ r.result.deal_id = DELETE}
                 |-> bucket[k]]
  /\ pc' = "planned"
  /\ UNCHANGED <<Inputs, Redist, run, idx, objects, oi, calls, ops, faults>>

\* variant of AnalyzeAndMap: a missing export or missing credentials do not stop the run
AnalyzeAndMap_IgnoresConfig ==
  /\ pc = "start"
  /\ entry \in {"main", "execute_restructure"}
  /\ mappings' = analyze_and_map(bucket, csv_rows, manual_overrides).entries
  /\ resolved' = resolved \cup analyze_and_map(bucket, csv_rows, manual_overrides).resolver
  /\ pc' = "planned"
  /\ UNCHANGED <<bucket, Inputs, Redist, run, idx, objects, oi, calls, ops, faults>>

\* Step 1 of __main__: analyze_and_map(csv_path, manual_overrides)
AnalyzeAndMap ==
  /\ pc = "start"
  /\ entry \in {"main", "execute_restructure"}
  /\ config = "ok"
  /\ mappings' = analyze_and_map(bucket, csv_rows, manual_overrides).entries
  /\ resolved' = resolved \cup analyze_and_map(bucket, csv_rows, manual_overrides).resolver
  /\ pc' = "planned"
  /\ UNCHANGED <<bucket, Inputs, Redist, run, idx, objects, oi, calls, ops, faults>>

\* variant of MainNeedsReview: the warning is printed and the restructure executed
MainNeedsReview_ExecutesAnyway ==
  /\ pc = "planned"
  /\ entry = "main"
  /\ display_summary(mappings)[3] > 0
  /\ pc' = "exec"
  /\ idx' = 1
  /\ UNCHANGED <<bucket, Inputs, Redist, run, mappings, resolved, objects, oi, calls, ops, faults>>

\* Step 2 of __main__ when total_missing > 0 (lines 339-341): nothing is executed
MainNeedsReview ==
  /\ pc = "planned"
  /\ entry = "main"
  /\ display_summary(mappings)[3] > 0
  /\ pc' = "done"
  /\ UNCHANGED <<bucket, Inputs, Redist, run, mappings, resolved, idx, objects, oi, calls, ops, faults>>

\* variant of ExecuteRestructure: the dry_run flag is not consulted
ExecuteRestructure_IgnoresDryRun ==
  /\ pc = "planned"
  /\ entry = "main" => display_summary(mappings)[3] = 0
  /\ pc' = "exec"
  /\ idx' = 1
  /\ UNCHANGED <<bucket, Inputs, Redist, run, mappings, resolved, objects, oi, calls, ops, faults>>

\* execute_restructure(mappings, dry_run) is entered (lines 274-282)
ExecuteRestructure ==
  /\ pc = "planned"
  /\ entry = "main" => display_summary(mappings)[3] = 0
  /\ IF dry_run
     THEN pc' = "done" /\ idx' = idx
     ELSE pc' = "exec" /\ idx' = 1
  /\ UNCHANGED <<bucket, Inputs, Redist, run, mappings, resolved, objects, oi, calls, ops, faults>>

\* a call of rename_s3_folder / delete_s3_folder with the listing it made; ret is the
\* value returned: "False" at once when the listing is empty (lines 138-140, 228-230),
\* "True" after the last delete, "running" until then
Call(fn, nb, old_name, new_name, objs) ==
  [fn |-> fn, nb |-> nb, old_name |-> old_name, new_name |-> new_name,
   objects |-> objs, run |-> run, ret |-> IF objs = <<>> THEN "False" ELSE "running"]

CallRecord(fn, e, objs) == Call(fn, e.nb, e.folder, e.mapping.deal_id, objs)

\* the call in progress returns True
Returned(cs) == [cs EXCEPT ![Len(cs)].ret = "True"]

\* variant of NextFolder: a rename whose target prefix already holds objects is skipped
NextFolder_SkipsExistingTarget ==
  /\ pc = "exec"
  /\ IF idx > Len(mappings)
     THEN /\ pc' = "done"
          /\ UNCHANGED <<idx, objects, oi, calls>>
     ELSE LET e == mappings[idx]
              listed == ListObjects(bucket, e.nb, e.folder)
          IN IF \/ e.mapping = NoMapping
                \/ LowConfidence(e.mapping)
                \/ ListObjects(bucket, e.nb, e.mapping.deal_id) # <<>>
             THEN /\ idx' = idx + 1
                  /\ UNCHANGED <<pc, objects, oi, calls>>
             ELSE /\ calls' = Append(calls,
                                     CallRecord(IF e.mapping.deal_id = DELETE
                                                THEN "delete_s3_folder"
                                                ELSE "rename_s3_folder", e, listed))
                  /\ IF listed = <<>>
                     THEN /\ idx' = idx + 1
                          /\ UNCHANGED <<pc, objects, oi>>
                     ELSE /\ objects' = listed
                          /\ oi' = 1
                          /\ idx' = idx
                          /\ pc' = IF e.mapping.deal_id = DELETE THEN "delete_folder" ELSE "copy"
  /\ UNCHANGED <<bucket, Inputs, Redist, run, mappings, resolved, ops, faults>>

\* variant of NextFolder: no skip of the low-confidence entries
NextFolder_NoConfidenceSkip ==
  /\ pc = "exec"
  /\ IF idx > Len(mappings)
     THEN /\ pc' = "done"
          /\ UNCHANGED <<idx, objects, oi, calls>>
     ELSE LET e == mappings[idx]
              listed == ListObjects(bucket, e.nb, e.folder)
          IN IF e.mapping = NoMapping
             THEN /\ idx' = idx + 1
                  /\ UNCHANGED <<pc, objects, oi, calls>>
             ELSE /\ calls' = Append(calls,
                                     CallRecord(IF e.mapping.deal_id = DELETE
                                                THEN "delete_s3_folder"
                                                ELSE "rename_s3_folder", e, listed))
                  /\ IF listed = <<>>
                     THEN /\ idx' = idx + 1
                          /\ UNCHANGED <<pc, objects, oi>>
                     ELSE /\ objects' = listed
                          /\ oi' = 1
                          /\ idx' = idx
                          /\ pc' = IF e.mapping.deal_id = DELETE THEN "delete_folder" ELSE "copy"
  /\ UNCHANGED <<bucket, Inputs, Redist, run, mappings, resolved, ops, faults>>

\* one iteration of the loop of execute_restructure (lines 288-315), up to and including
\* the listing made by rename_s3_folder / delete_s3_folder
NextFolder ==
  /\ pc = "exec"
  /\ IF idx > Len(mappings)
     THEN /\ pc' = "done"
          /\ UNCHANGED <<idx, objects, oi, calls>>
     ELSE LET e == mappings[idx]
              listed == ListObjects(bucket, e.nb, e.folder)
          IN IF e.mapping = NoMapping \/ LowConfidence(e.mapping)
             THEN /\ idx' = idx + 1
                  /\ UNCHANGED <<pc, objects, oi, calls>>
             ELSE /\ calls' = Append(calls,
                                     CallRecord(IF e.mapping.deal_id = DELETE
                                                THEN "delete_s3_folder"
                                                ELSE "rename_s3_folder", e, listed))
                  /\ IF listed = <<>>
                     THEN /\ idx' = idx + 1
                          /\ UNCHANGED <<pc, objects, oi>>
                     ELSE /\ objects' = listed
                          /\ oi' = 1
                          /\ idx' = idx
                          /\ pc' = IF e.mapping.deal_id = DELETE THEN "delete_folder" ELSE "copy"
  /\ UNCHANGED <<bucket, Inputs, Redist, run, mappings, resolved, ops, faults>>

\* the arguments of a direct call: a folder of either neighborhood, present or not
DirectFolders == {F_9Oak, F_OldDup}

\* variant of CallRenameFolder: an empty listing leaves a marker object at the new prefix
CallRenameFolder_CreatesEmptyDestination ==
  /\ pc = "start"
  /\ entry = "rename_s3_folder"
  /\ \E n \in 1..2, old_name \in DirectFolders :
       LET listed == ListObjects(bucket, neighborhoods[n], old_name)
           marker == Key(neighborhoods[n], ID_31, <<>>)
       IN /\ calls' = Append(calls, Call("rename_s3_folder", neighborhoods[n],
                                         old_name, ID_31, listed))
          /\ IF listed = <<>>
             THEN /\ pc' = "done"
                  /\ bucket' = [k \in DOMAIN bucket \cup {marker} |->
                                  IF k = marker THEN marker ELSE bucket[k]]
                  /\ ops' = Append(ops, [op |-> "copy", key |-> marker, dst |-> marker,
                                         call |-> Len(calls) + 1])
                  /\ UNCHANGED <<objects, oi>>
             ELSE /\ pc' = "copy" /\ objects' = listed /\ oi' = 1
                  /\ UNCHANGED <<bucket, ops>>
  /\ UNCHANGED <<Inputs, Redist, run, mappings, resolved, idx, faults>>

\* rename_s3_folder(neighborhood, old_name, new_name) is called: lines 127-140
CallRenameFolder ==
  /\ pc = "start"
  /\ entry = "rename_s3_folder"
  /\ \E n \in 1..2, old_name \in DirectFolders :
       LET listed == ListObjects(bucket, neighborhoods[n], old_name)
       IN /\ calls' = Append(calls, Call("rename_s3_folder", neighborhoods[n],
                                         old_name, ID_31, listed))
          /\ IF listed = <<>>
             THEN pc' = "done" /\ UNCHANGED <<objects, oi>>
             ELSE pc' = "copy" /\ objects' = listed /\ oi' = 1
  /\ UNCHANGED <<bucket, Inputs, Redist, run, mappings, resolved, idx, ops, faults>>

\* delete_s3_folder(neighborhood, folder_name) is called: lines 218-230
CallDeleteFolder ==
  /\ pc = "start"
  /\ entry = "delete_s3_folder"
  /\ \E n \in 1..2, folder_name \in DirectFolders :
       LET listed == ListObjects(bucket, neighborhoods[n], folder_name)
       IN /\ calls' = Append(calls, Call("delete_s3_folder", neighborhoods[n],
                                         folder_name, DELETE, listed))
          /\ IF listed = <<>>
             THEN pc' = "done" /\ UNCHANGED <<objects, oi>>
             ELSE pc' = "delete_folder" /\ objects' = listed /\ oi' = 1
  /\ UNCHANGED <<bucket, Inputs, Redist, run, mappings, resolved, idx, ops, faults>>

\* a delete names its key in both fields
Op(kind, src, dst) == [op |-> kind, key |-> src, dst |-> dst, call |-> Len(calls)]

\* old_key.replace(old_prefix, '') and new_prefix + relative_path (lines 145-146)
NewKey(old_key, new_name) == Key(old_key.nb, new_name, old_key.rel)

\* s3.copy_object(CopySource = old_key, Key = new_key)
copy_object(bkt, old_key, new_key) ==
  [k \in DOMAIN bkt \cup {new_key} |-> IF k = new_key THEN bkt[old_key] ELSE bkt[k]]

\* s3.delete_object(Key = key)
delete_object(bkt, key) == [k \in DOMAIN bkt \ {key} |-> bkt[k]]

\* variant of RenameCopy: each object is moved, its source deleted right after its copy
RenameCopy_DeletesSource ==
  /\ pc = "copy"
  /\ LET old_key == objects[oi]
         new_key == NewKey(old_key, calls[Len(calls)].new_name)
     IN /\ bucket' = delete_object(copy_object(bucket, old_key, new_key), old_key)
        /\ ops' = ops \o <<Op("copy", old_key, new_key), Op("delete", old_key, old_key)>>
  /\ IF oi = Len(objects)
     THEN pc' = "delete_src" /\ oi' = 1
     ELSE pc' = "copy" /\ oi' = oi + 1
  /\ UNCHANGED <<Inputs, Redist, run, mappings, resolved, idx, objects, calls, faults>>

\* rename_s3_folder, one iteration of the copy loop (lines 143-151)
RenameCopy ==
  /\ pc = "copy"
  /\ LET old_key == objects[oi]
         new_key == NewKey(old_key, calls[Len(calls)].new_name)
     IN /\ bucket' = copy_object(bucket, old_key, new_key)
        /\ ops' = Append(ops, Op("copy", old_key, new_key))
  /\ IF oi = Len(objects)
     THEN pc' = "delete_src" /\ oi' = 1
     ELSE pc' = "copy" /\ oi' = oi + 1
  /\ UNCHANGED <<Inputs, Redist, run, mappings, resolved, idx, objects, calls, faults>>

\* variant of RenameDelete: the delete loop leaves the old objects in place
RenameDelete_KeepsSource ==
  /\ pc = "delete_src"
  /\ pc' = IF entry \in DirectCalls THEN "done" ELSE "exec"
  /\ idx' = idx + 1 /\ oi' = 0 /\ objects' = <<>>
  /\ calls' = Returned(calls)
  /\ UNCHANGED <<bucket, ops, Inputs, Redist, run, mappings, resolved, faults>>

\* rename_s3_folder, one iteration of the delete loop (lines 154-156); after the last
\* one the call returns True and execute_restructure goes to the next folder
RenameDelete ==
  /\ pc = "delete_src"
  /\ bucket' = delete_object(bucket, objects[oi])
  /\ ops' = Append(ops, Op("delete", objects[oi], objects[oi]))
  /\ IF oi = Len(objects)
     THEN /\ pc' = IF entry \in DirectCalls THEN "done" ELSE "exec"
          /\ idx' = idx + 1 /\ oi' = 0 /\ objects' = <<>>
          /\ calls' = Returned(calls)
     ELSE pc' = "delete_src" /\ oi' = oi + 1 /\ UNCHANGED <<idx, objects, calls>>
  /\ UNCHANGED <<Inputs, Redist, run, mappings, resolved, faults>>

\* variant of DeleteFolderObject: the call returns True after its first delete
DeleteFolderObject_StopsAfterFirst ==
  /\ pc = "delete_folder"
  /\ bucket' = delete_object(bucket, objects[oi])
  /\ ops' = Append(ops, Op("delete", objects[oi], objects[oi]))
  /\ pc' = IF entry \in DirectCalls THEN "done" ELSE "exec"
  /\ idx' = idx + 1 /\ oi' = 0 /\ objects' = <<>>
  /\ calls' = Returned(calls)
  /\ UNCHANGED <<Inputs, Redist, run, mappings, resolved, faults>>

\* delete_s3_folder, one iteration of the delete loop (lines 233-235)
DeleteFolderObject ==
  /\ pc = "delete_folder"
  /\ bucket' = delete_object(bucket, objects[oi])
  /\ ops' = Append(ops, Op("delete", objects[oi], objects[oi]))
  /\ IF oi = Len(objects)
     THEN /\ pc' = IF entry \in DirectCalls THEN "done" ELSE "exec"
          /\ idx' = idx + 1 /\ oi' = 0 /\ objects' = <<>>
          /\ calls' = Returned(calls)
     ELSE pc' = "delete_folder" /\ oi' = oi + 1 /\ UNCHANGED <<idx, objects, calls>>
  /\ UNCHANGED <<Inputs, Redist, run, mappings, resolved, faults>>

Fault(kind) == [kind |-> kind, phase |-> pc, call |-> Len(calls), idx |-> idx, oi |-> oi, run |-> run]

\* copy_object or delete_object raises: no handler in rename_s3_folder, delete_s3_folder,
\* execute_restructure or __main__, so the exception ends the program
StorageCallRaises ==
  /\ pc \in {"copy", "delete_src", "delete_folder"}
  /\ Len(faults) < MaxFaults
  /\ faults' = Append(faults, Fault("exception"))
  /\ pc' = "raised"
  /\ UNCHANGED <<bucket, Inputs, Redist, run, mappings, resolved, idx, objects, oi, calls, ops>>

\* the process is terminated while a rename_s3_folder or delete_s3_folder call is in its
\* copy or delete loop, or between the copy and the delete of a move
Kill ==
  /\ pc \in {"copy", "delete_src", "delete_folder", "move_delete"}
  /\ Len(faults) < MaxFaults
  /\ faults' = Append(faults, Fault("kill"))
  /\ pc' = "killed"
  /\ UNCHANGED <<bucket, Inputs, Redist, run, mappings, resolved, idx, objects, oi, calls, ops>>

(***************************************************************************)
(* redistribute_s3_images                                                  *)
(***************************************************************************)
NEIGHBORHOODS == <<"UnSQ:Gren'Villl.", "Brooklyn | Queens">>

\* s up to (not including) the first character that is in the set cs
RECURSIVE Before(_, _)
Before(s, cs) ==
  IF s = <<>> \/ Head(s) \in cs THEN <<>> ELSE <<Head(s)>> \o Before(Tail(s), cs)

\* s.split('/')[-1]
RECURSIVE LastSegment(_)
LastSegment(s) ==
  LET i == IndexFrom(s, "/", 1)
  IN IF i = 0 THEN s ELSE LastSegment(SubSeq(s, i + 1, Len(s)))

SchemeChars ==
  {"a","b","c","d","e","f","g","h","i","j","k","l","m","n","o","p","q","r","s","t","u","v",
   "w","x","y","z","A","B","C","D","E","F","G","H","I","J","K","L","M","N","O","P","Q","R",
   "S","T","U","V","W","X","Y","Z","0","1","2","3","4","5","6","7","8","9","+","-","."}

\* urlparse(url).path: scheme and netloc removed, cut at '?' or '#', and the ';params'
\* of the last segment removed
UrlPath(url) ==
  LET colon == IndexFrom(url, ":", 1)
      hasScheme == /\ colon > 1
                   /\ ~IsDigit(url[1]) /\ url[1] \notin {"+", "-", "."}
                   /\ \A i \in 1..(colon - 1) : url[i] \in SchemeChars
      rest == IF hasScheme THEN SubSeq(url, colon + 1, Len(url)) ELSE url
      afterNet == IF StartsWith(rest, <<"/", "/">>)
                  THEN LET r2 == SubSeq(rest, 3, Len(rest))
                       IN SubSeq(r2, Len(Before(r2, {"/", "?", "#"})) + 1, Len(r2))
                  ELSE rest
      path == Before(afterNet, {"?", "#"})
      seg == LastSegment(path)
      dir == SubSeq(path, 1, Len(path) - Len(seg))
  IN dir \o Before(seg, {";"})

\* lines 44-46: the filename a picture URL names
UrlFilename(url) ==
  LET path == UrlPath(url)
  IN IF IndexFrom(path, "/", 1) # 0 THEN LastSegment(path) ELSE url

\* parse_csv_image_mapping: insertion-ordered dict filename -> list of entries
RECURSIVE AddPictures(_, _, _, _)
AddPictures(row, pic_num, seen, d) ==
  IF pic_num > Len(row.pictures) THEN d
  ELSE LET url == Strip(row.pictures[pic_num])
           filename == UrlFilename(url)
           item == [deal_id |-> row.id, picture_num |-> pic_num,
                    neighborhood |-> row.neighborhood]
           old == IF DictHas(d, filename) THEN DictGet(d, filename) ELSE <<>>
       IN IF url # <<>>
          THEN AddPictures(row, pic_num + 1, seen, DictPut(d, filename, Append(old, item)))
          ELSE AddPictures(row, pic_num + 1, seen, d)

RECURSIVE ParseRows(_, _)
ParseRows(rows, d) ==
  IF rows = <<>> THEN d
  ELSE IF Head(rows).id = <<>> THEN ParseRows(Tail(rows), d)
  ELSE ParseRows(Tail(rows), AddPictures(Head(rows), 1, {}, d))

parse_csv_image_mapping(rows) == ParseRows(rows, <<>>)

\* CommonPrefixes of a delimiter listing: folder prefixes in key order (the prefix ends in '/')
RECURSIVE PrefixOrder(_)
PrefixOrder(S) ==
  IF S = {} THEN <<>>
  ELSE LET m == CHOOSE x \in S :
                  \A y \in S \ {x} : StrLess(Append(x, "/"), Append(y, "/"))
       IN <<m>> \o PrefixOrder(S \ {m})

InventoryItem(key, neighborhood, deal_id) ==
  [current_key |-> key, filename |-> LastSegment(key.rel),
   current_deal_id |-> deal_id, current_neighborhood |-> neighborhood]

RECURSIVE FolderItems(_, _, _)
FolderItems(keys, neighborhood, deal_id) ==
  IF keys = <<>> THEN <<>>
  ELSE (IF Head(keys).rel = <<>> \/ Head(keys).rel[Len(Head(keys).rel)] = "/"
        THEN <<>>
        ELSE <<InventoryItem(Head(keys), neighborhood, deal_id)>>)
       \o FolderItems(Tail(keys), neighborhood, deal_id)

RECURSIVE NeighborhoodItems(_, _, _)
NeighborhoodItems(bkt, neighborhood, folders) ==
  IF folders = <<>> THEN <<>>
  ELSE FolderItems(ListObjects(bkt, neighborhood, Head(folders)), neighborhood, Head(folders))
         \o NeighborhoodItems(bkt, neighborhood, Tail(folders))

get_current_s3_inventory(bkt) ==
  LET Folders(nb) == PrefixOrder({k.folder : k \in {x \in DOMAIN bkt : x.nb = nb}})
  IN NeighborhoodItems(bkt, NEIGHBORHOODS[1], Folders(NEIGHBORHOODS[1]))
       \o NeighborhoodItems(bkt, NEIGHBORHOODS[2], Folders(NEIGHBORHOODS[2]))

WV1 == <<"W","e","s","t"," ","V","i","l","l",".","/","U","n","i","o","n"," ","S","q">>
WV2 == <<"G","r","a","m","e","r","c","y","/","F","l","a","t","i","r","o","n">>
WV3 == <<"C","h","e","l","s","e","a","/","P","e","n","n">>
BK1 == <<"B","r","o","o","k","l","y","n">>
BK2 == <<"Q","u","e","e","n","s">>
BK3 == <<"B","r","o","o","k","l","y","n"," ","|"," ","Q","u","e","e","n","s">>

\* map_neighborhood: "" stands for the None it returns for a neighborhood out of scope
map_neighborhood(csv_neighborhood) ==
  IF \E n \in {WV1, WV2, WV3} : Contains(csv_neighborhood, n) THEN "UnSQ:Gren'Villl."
  ELSE IF \E n \in {BK1, BK2, BK3} : Contains(csv_neighborhood, n) THEN "Brooklyn | Queens"
  ELSE ""

Move(s3_item, expected_neighborhood, expected_deal_id) ==
  [source_key |-> s3_item.current_key,
   dest_key |-> Key(expected_neighborhood, expected_deal_id, s3_item.filename),
   filename |-> s3_item.filename,
   from_deal |-> s3_item.current_deal_id, to_deal |-> expected_deal_id,
   from_neighborhood |-> s3_item.current_neighborhood,
   to_neighborhood |-> expected_neighborhood]

\* lines 133-150: the moves for one filename of the CSV
RECURSIVE MovesForLocations(_, _, _)
MovesForLocations(s3_locations, expected_neighborhood, expected_deal_id) ==
  IF s3_locations = <<>> THEN <<>>
  ELSE (IF \/ Head(s3_locations).current_deal_id # expected_deal_id
           \/ Head(s3_locations).current_neighborhood # expected_neighborhood
        THEN <<Move(Head(s3_locations), expected_neighborhood, expected_deal_id)>>
        ELSE <<>>)
       \o MovesForLocations(Tail(s3_locations), expected_neighborhood, expected_deal_id)

\* create_redistribution_plan: the moves (first component of the result)
RECURSIVE PlanMoves(_, _, _)
PlanMoves(csv_mapping, i, s3_inventory) ==
  IF i > Len(csv_mapping) THEN <<>>
  ELSE LET filename == csv_mapping[i][1]
           expected_entry == csv_mapping[i][2][1]
           expected_neighborhood == map_neighborhood(expected_entry.neighborhood)
           s3_locations == SelectSeq(s3_inventory, LAMBDA it : it.filename = filename)
       IN (IF s3_locations = <<>> \/ expected_neighborhood = ""
           THEN <<>>
           ELSE MovesForLocations(s3_locations, expected_neighborhood, expected_entry.deal_id))
          \o PlanMoves(csv_mapping, i + 1, s3_inventory)

create_redistribution_plan(csv_mapping, s3_inventory) == PlanMoves(csv_mapping, 1, s3_inventory)

\* Steps 1-3 of __main__
PlanRedistribution ==
  /\ pc = "start"
  /\ entry = "redistribution"
  /\ moves' = create_redistribution_plan(parse_csv_image_mapping(csv_rows),
                                         get_current_s3_inventory(bucket))
  /\ mi' = 1
  /\ pc' = "move"
  /\ UNCHANGED <<bucket, Inputs, Restruct, run, ops, faults>>

MoveOp(kind, src, dst) == [op |-> kind, key |-> src, dst |-> dst, call |-> 0]

\* execute_redistribution, one iteration of the loop in dry-run mode (lines 200-205),
\* or the end of the loop
MoveSkip ==
  /\ pc = "move"
  /\ IF mi > Len(moves)
     THEN pc' = "done" /\ mi' = mi
     ELSE dry_run /\ mi' = mi + 1 /\ pc' = pc
  /\ UNCHANGED <<bucket, Inputs, Restruct, moves, run, ops, faults>>

\* lines 208-212: the copy of one move succeeds
MoveCopy ==
  /\ pc = "move"
  /\ mi <= Len(moves)
  /\ ~dry_run
  /\ moves[mi].source_key \in DOMAIN bucket
  /\ bucket' = copy_object(bucket, moves[mi].source_key, moves[mi].dest_key)
  /\ ops' = Append(ops, MoveOp("copy", moves[mi].source_key, moves[mi].dest_key))
  /\ pc' = "move_delete"
  /\ UNCHANGED <<Inputs, Restruct, moves, mi, run, faults>>

\* variant of MoveDelete: the source of the move is left where it was
MoveDelete_KeepsSource ==
  /\ pc = "move_delete"
  /\ mi' = mi + 1
  /\ pc' = "move"
  /\ UNCHANGED <<bucket, ops, Inputs, Restruct, moves, run, faults>>

\* line 215: the delete of one move succeeds
MoveDelete ==
  /\ pc = "move_delete"
  /\ bucket' = delete_object(bucket, moves[mi].source_key)
  /\ ops' = Append(ops, MoveOp("delete", moves[mi].source_key, moves[mi].source_key))
  /\ mi' = mi + 1
  /\ pc' = "move"
  /\ UNCHANGED <<Inputs, Restruct, moves, run, faults>>

\* variant of MoveRaises: the exception is not handled and ends the loop
MoveRaises_EndsLoop ==
  /\ \/ pc = "move" /\ mi <= Len(moves) /\ ~dry_run
     \/ pc = "move_delete"
  /\ Len(faults) < MaxFaults
  /\ faults' = Append(faults, [kind |-> "exception", phase |-> pc, call |-> 0, idx |-> mi,
                               oi |-> 0, run |-> run])
  /\ pc' = "raised"
  /\ UNCHANGED <<bucket, Inputs, Restruct, moves, mi, run, ops>>

\* lines 218-219: copy_object or delete_object raises, the handler prints the error and
\* the loop goes on with the next move
MoveRaises ==
  /\ \/ pc = "move" /\ mi <= Len(moves) /\ ~dry_run
     \/ pc = "move_delete"
  /\ Len(faults) < MaxFaults
  /\ faults' = Append(faults, [kind |-> "caught", phase |-> pc, call |-> 0, idx |-> mi,
                               oi |-> 0, run |-> run])
  /\ mi' = mi + 1
  /\ pc' = "move"
  /\ UNCHANGED <<bucket, Inputs, Restruct, moves, run, ops>>

\* the operator starts the program again with the same CSV and overrides
Rerun ==
  /\ pc \in Terminal
  /\ run < MaxRuns
  /\ run' = run + 1
  /\ pc' = "start"
  /\ mappings' = <<>>
  /\ idx' = 0
  /\ objects' = <<>>
  /\ oi' = 0
  /\ moves' = <<>>
  /\ mi' = 0
  /\ UNCHANGED <<bucket, Inputs, resolved, calls, ops, faults>>

Next ==
  \/ ConfigFatal
  \/ AnalyzeAndMap
  \/ CallRenameFolder
  \/ CallDeleteFolder
  \/ MainNeedsReview
  \/ ExecuteRestructure
  \/ NextFolder
  \/ RenameCopy
  \/ RenameDelete
  \/ DeleteFolderObject
  \/ StorageCallRaises
  \/ Kill
  \/ PlanRedistribution
  \/ MoveSkip
  \/ MoveCopy
  \/ MoveDelete
  \/ MoveRaises
  \/ Rerun

Spec == Init /\ [][Next]_vars

(***************************************************************************)
(* normalize_address and similarity_score on their own: the argument is     *)
(* drawn from a bounded set of strings, the function is applied to it, and  *)
(* then applied again (normalize_address to its own value, similarity_score *)
(* to the swapped arguments).                                               *)
(***************************************************************************)
MaxFrags == 3
MaxWord == 4

\* pieces of folder names: abbreviations, the characters normalize_address removes
Fragments ==
  { <<"5", " ", "E", ",">>,
    <<" ", "4", "t", "h">>,
    <<" ", "P", "l">>,
    <<"a", "z", "a">>,
    <<"a", "c", "e">>,
    <<"(">>,
    <<")">>,
    <<"*">>,
    <<"#">>,
    <<",">>,
    <<" ", "S", "t">>,
    <<" ">>,
    <<"U", "n">>,
    <<"S", "q">> }

\* the strings made of n fragments
RECURSIVE FragStrings(_)
FragStrings(n) ==
  IF n = 0 THEN { <<>> }
  ELSE { s \o f : <<s, f>> \in FragStrings(n - 1) \X Fragments }

AddressInputs == UNION { FragStrings(n) : n \in 0..MaxFrags }

\* the words of at most MaxWord letters over a two-letter alphabet
RECURSIVE Words(_)
Words(n) ==
  IF n = 0 THEN { <<>> }
  ELSE Words(n - 1) \cup { w \o <<c>> : <<w, c>> \in Words(n - 1) \X {"a", "B"} }

WordInputs == Words(MaxWord)

PureInit ==
  /\ \/ \E s \in AddressInputs :
          pure = [fn |-> "normalize_address", phase |-> "input", a |-> s, b |-> <<>>,
                  out |-> <<>>, again |-> <<>>]
     \/ \E s \in WordInputs, t \in WordInputs :
          pure = [fn |-> "similarity_score", phase |-> "input", a |-> s, b |-> t,
                  out |-> ScoreZero, again |-> ScoreZero]
  /\ web = NoRequest
  /\ bucket = << >>
  /\ csv_rows = UnusedCsv
  /\ manual_overrides = NoOverrides
  /\ entry = "pure"
  /\ dry_run = TRUE
  /\ config = "ok"
  /\ run = 1
  /\ pc = "start"
  /\ mappings = <<>>
  /\ resolved = {}
  /\ idx = 0
  /\ objects = <<>>
  /\ oi = 0
  /\ calls = <<>>
  /\ ops = <<>>
  /\ faults = <<>>
  /\ moves = <<>>
  /\ mi = 0

Program == <<bucket, csv_rows, manual_overrides, entry, dry_run, config, run, pc, mappings,
             resolved, idx, objects, oi, calls, ops, faults, moves, mi, web>>

\* normalize_address(a)
NormalizeAddress ==
  /\ pure.fn = "normalize_address"
  /\ pure.phase = "input"
  /\ pure' = [pure EXCEPT !.phase = "applied", !.out = normalize_address(pure.a)]
  /\ UNCHANGED Program

\* normalize_address applied to the value it returned
NormalizeAgain ==
  /\ pure.fn = "normalize_address"
  /\ pure.phase = "applied"
  /\ pure' = [pure EXCEPT !.phase = "reapplied", !.again = normalize_address(pure.out)]
  /\ UNCHANGED Program

\* similarity_score(a, b)
SimilarityScore ==
  /\ pure.fn = "similarity_score"
  /\ pure.phase = "input"
  /\ pure' = [pure EXCEPT !.phase = "applied", !.out = similarity_score(pure.a, pure.b)]
  /\ UNCHANGED Program

\* similarity_score(b, a)
SimilaritySwapped ==
  /\ pure.fn = "similarity_score"
  /\ pure.phase = "applied"
  /\ pure' = [pure EXCEPT !.phase = "reapplied", !.again = similarity_score(pure.b, pure.a)]
  /\ UNCHANGED Program

PureNext ==
  \/ NormalizeAddress
  \/ NormalizeAgain
  \/ SimilarityScore
  \/ SimilaritySwapped

PureSpec == PureInit /\ [][PureNext]_vars



(***************************************************************************)
(* routes/rosie_images.py: POST /rosie-images.  One request is handled at  *)
(* a time; every call of the CRM, of the image services and of the website *)
(* may fail, which the helpers turn into None, [], "" or False.            *)
(***************************************************************************)
MaxUrls == 2

\* what the scripts work on: no call of the web service changes it
Scripts == <<bucket, csv_rows, manual_overrides, entry, dry_run, config, run, pc, mappings,
             resolved, idx, objects, oi, calls, ops, faults, moves, mi, pure>>

U_3 == <<"h","/","2","5","/","3",".","j","p","e","g">>
T_Desk == <<"D","e","s","k">>
T_DeskPadded == <<" ","D","e","s","k"," ">>
T_Blank == <<" ">>
T_GenAlt == <<"g","e","n"," ","a","l","t">>
T_GenTip == <<"g","e","n"," ","t","i","p">>

\* int(s) for a string that int() accepts
RECURSIVE DigitsValue(_, _)
DigitsValue(s, acc) ==
  IF s = <<>> THEN acc
  ELSE IF Head(s) = "_" THEN DigitsValue(Tail(s), acc)
  ELSE DigitsValue(Tail(s),
                   10 * acc + (CHOOSE n \in 0..9 :
                                 <<"0","1","2","3","4","5","6","7","8","9">>[n + 1] = Head(s)))

IntOf(s) ==
  LET t == Strip(s)
  IN IF Head(t) = "-" THEN 0 - DigitsValue(Tail(t), 0)
     ELSE IF Head(t) = "+" THEN DigitsValue(Tail(t), 0)
     ELSE DigitsValue(t, 0)

\* str(n) for n >= 0
RECURSIVE StrOf(_)
StrOf(n) ==
  IF n < 10 THEN <<(<<"0","1","2","3","4","5","6","7","8","9">>)[n + 1]>>
  ELSE Append(StrOf(n \div 10), (<<"0","1","2","3","4","5","6","7","8","9">>)[(n % 10) + 1])

\* the lists of at most n image URLs
RECURSIVE UrlLists(_)
UrlLists(n) ==
  IF n = 0 THEN { <<>> }
  ELSE UrlLists(n - 1) \cup { Append(l, u) : <<l, u>> \in UrlLists(n - 1) \X {U_3, U_a} }

\* force_refresh as the body gives it: a JSON boolean or a string
ForceValues ==
  {[type |-> "bool", bool |-> FALSE, str |-> <<>>],
   [type |-> "bool", bool |-> TRUE, str |-> <<>>],
   [type |-> "str", bool |-> FALSE, str |-> <<"Y","e","s">>],
   [type |-> "str", bool |-> FALSE, str |-> <<"n","o">>]}

\* a JSON body; a field that is absent or null is None, image_urls is given or not
Body(deal_id, neighborhood, image_urls, urls_given, picture_number, force_refresh) ==
  [deal_id |-> deal_id, neighborhood |-> neighborhood, image_urls |-> image_urls,
   urls_given |-> urls_given, picture_number |-> picture_number,
   force_refresh |-> force_refresh]

\* the requests: the valid ones, for slot 3 or without picture number, and one request
\* for each way of being invalid
RosieRequests ==
  { Body(ID_25, N_Chelsea, l, TRUE, n, f) :
      l \in UrlLists(MaxUrls), n \in {None, <<"3">>}, f \in ForceValues }
  \cup { Body(d, N_Chelsea, <<U_3>>, TRUE, None, CHOOSE f \in ForceValues : f.bool) :
           d \in {None, <<"2","x">>} }
  \cup { Body(ID_25, None, <<U_3>>, TRUE, None, CHOOSE f \in ForceValues : f.bool),
         Body(ID_25, N_Chelsea, <<>>, FALSE, None, CHOOSE f \in ForceValues : f.bool) }
  \cup { Body(ID_25, N_Chelsea, <<U_a>>, TRUE, n, CHOOSE f \in ForceValues : f.bool) :
           n \in {<<"0">>, <<"1","1">>, <<"x">>} }

\* the deal fields defined in the CRM: per picture slot, which of the "Picture n",
\* "Alt Text Pic n" and "Tooltip Pic n" fields exist
FieldChoices ==
  { [s \in 1..10 |-> {"picture", "alt", "tooltip"}],
    [s \in 1..10 |-> IF s = 3 THEN {"picture", "alt"} ELSE {"picture", "alt", "tooltip"}],
    [s \in {} |-> {}] }

EmptySlot == [picture |-> None, alt |-> None, tooltip |-> None]

\* the values the deal holds in the CRM, per picture slot
CrmChoices ==
  { [s \in 1..10 |-> EmptySlot],
    [s \in 1..10 |-> IF s = 3 THEN [picture |-> U_3, alt |-> T_Desk, tooltip |-> T_DeskPadded]
                     ELSE EmptySlot],
    [s \in 1..10 |-> IF s = 3 THEN [picture |-> U_3, alt |-> T_Desk, tooltip |-> T_Blank]
                     ELSE IF s = 1 THEN [picture |-> U_a, alt |-> T_Desk, tooltip |-> T_Desk]
                     ELSE EmptySlot] }

NoTexts == [alt_text |-> <<>>, tooltip_text |-> <<>>]

NoResponse ==
  [code |-> 0, message |-> "", cached |-> FALSE, images |-> <<>>,
   pipedrive_updated |-> FALSE, wix_synced |-> FALSE]

\* the body and status of an error response
ErrorResponse(code, message) == [NoResponse EXCEPT !.code = code, !.message = message]

\* (deal_data.get(key) or "").strip()
StoredText(v) == IF v = None THEN <<>> ELSE Strip(v)

\* _get_pipedrive_field_keys: None (here the empty map, which the callers treat alike)
\* without token or when the request fails
get_pipedrive_field_keys(token, fields, keys_ok) ==
  IF token /\ keys_ok THEN fields ELSE [s \in {} |-> {}]

\* _check_pipedrive_slot_populated: the stored texts when both are non-empty once
\* stripped; NoTexts stands for None; picture_number 0 stands for None
check_pipedrive_slot_populated(picture_number, token, fields, crm, keys_ok, deal_ok) ==
  IF picture_number < 1 \/ picture_number > 10 THEN NoTexts
  ELSE IF ~token THEN NoTexts
  ELSE LET field_map == get_pipedrive_field_keys(token, fields, keys_ok)
       IN IF picture_number \notin DOMAIN field_map THEN NoTexts
          ELSE IF ~deal_ok THEN NoTexts
          ELSE LET alt_text == IF "alt" \in field_map[picture_number]
                               THEN StoredText(crm[picture_number].alt) ELSE <<>>
                   tooltip_text == IF "tooltip" \in field_map[picture_number]
                                   THEN StoredText(crm[picture_number].tooltip) ELSE <<>>
               IN IF alt_text # <<>> /\ tooltip_text # <<>>
                  THEN [alt_text |-> alt_text, tooltip_text |-> tooltip_text]
                  ELSE NoTexts

\* the request as the handler starts on it
Received(req, token, fields, crm, site) ==
  [handler |-> "rosie_images", pc |-> "received", req |-> req, token |-> token,
   fields |-> fields, crm |-> crm, crm0 |-> crm, site |-> site, deal_id |-> 0,
   picture_number |-> 0, force_refresh |-> FALSE, address |-> None, reads_ok |-> FALSE,
   processed |-> <<>>, log |-> <<>>, resp |-> NoResponse]

\* lines 425-429: force_refresh as a boolean
ForceRefresh(v) ==
  IF v.type = "str"
  THEN Lower(v.str) \in {<<"t","r","u","e">>, <<"1">>, <<"y","e","s">>}
  ELSE v.bool

\* lines 452-468: the picture number read from the file name of a single URL, 0 for None
AutoDetect(image_urls) ==
  IF Len(image_urls) # 1 THEN 0
  ELSE LET filename == Before(LastSegment(image_urls[1]), {"."})
       IN IF IsInt(filename) /\ IntOf(filename) \in 1..10 THEN IntOf(filename) ELSE 0

\* lines 431-449: the error response of an invalid request, NoResponse for a valid one
Rejection(req) ==
  IF ~Truthy(req.deal_id) \/ ~Truthy(req.neighborhood) \/ ~req.urls_given
  THEN ErrorResponse(400, "Missing required fields")
  ELSE IF ~IsInt(req.deal_id)
  THEN ErrorResponse(400, "deal_id must be a valid integer")
  ELSE IF req.picture_number # None /\ ~IsInt(req.picture_number)
  THEN ErrorResponse(400, "picture_number must be a valid integer")
  ELSE IF req.picture_number # None /\ IntOf(req.picture_number) \notin 1..10
  THEN ErrorResponse(400, "picture_number must be between 1 and 10")
  ELSE NoResponse

\* the handler up to the auto-detection of the picture number (lines 401-468)
RosieValidate ==
  /\ web.handler = "rosie_images"
  /\ web.pc = "received"
  /\ web' = IF Rejection(web.req) # NoResponse
            THEN [web EXCEPT !.pc = "responded", !.resp = Rejection(web.req)]
            ELSE [web EXCEPT !.pc = "address",
                             !.deal_id = IntOf(web.req.deal_id),
                             !.picture_number =
                                IF web.req.picture_number # None
                                THEN IntOf(web.req.picture_number)
                                ELSE AutoDetect(web.req.image_urls),
                             !.force_refresh = ForceRefresh(web.req.force_refresh)]
  /\ UNCHANGED Scripts

\* _get_deal_address (line 471): None without token, when the request fails or when the
\* deal has no address
RosieGetAddress ==
  /\ web.handler = "rosie_images"
  /\ web.pc = "address"
  /\ \E address_ok \in BOOLEAN :
       web' = [web EXCEPT !.pc = "cache",
                          !.address = IF web.token /\ address_ok THEN A_9Oak ELSE None,
                          !.log = Append(web.log, "_get_deal_address")]
  /\ UNCHANGED Scripts

\* the response of a cache hit (lines 481-499)
CachedResponse(image_urls, existing_data) ==
  [NoResponse EXCEPT
     !.code = 200,
     !.cached = TRUE,
     !.images = << [url |-> IF image_urls # <<>> THEN image_urls[1] ELSE <<>>,
                    status |-> "cached", bytes_fetched |-> TRUE, labels |-> <<>>,
                    alt_text |-> existing_data.alt_text,
                    tooltip_text |-> existing_data.tooltip_text] >>]

\* variant of RosieCacheCheck: the images of a populated slot are processed all the same
RosieCacheCheck_ProcessesOnHit ==
  /\ web.handler = "rosie_images"
  /\ web.pc = "cache"
  /\ \E keys_ok \in BOOLEAN, deal_ok \in BOOLEAN :
       web' = [web EXCEPT
                 !.reads_ok = keys_ok /\ deal_ok,
                 !.log = IF web.force_refresh THEN web.log
                         ELSE Append(web.log, "_check_pipedrive_slot_populated"),
                 !.pc = IF web.req.image_urls = <<>> THEN "update" ELSE "process"]
  /\ UNCHANGED Scripts

\* lines 476-499: the cache check, skipped when force_refresh is true, and the response
\* of a cache hit
RosieCacheCheck ==
  /\ web.handler = "rosie_images"
  /\ web.pc = "cache"
  /\ \E keys_ok \in BOOLEAN, deal_ok \in BOOLEAN :
       LET existing_data ==
             IF web.force_refresh THEN NoTexts
             ELSE check_pipedrive_slot_populated(web.picture_number, web.token, web.fields,
                                                 web.crm, keys_ok, deal_ok)
       IN web' = [web EXCEPT
                    !.reads_ok = keys_ok /\ deal_ok,
                    !.log = IF web.force_refresh THEN web.log
                            ELSE Append(web.log, "_check_pipedrive_slot_populated"),
                    !.pc = IF existing_data # NoTexts THEN "responded"
                           ELSE IF web.req.image_urls = <<>> THEN "update" ELSE "process",
                    !.resp = IF existing_data # NoTexts
                             THEN CachedResponse(web.req.image_urls, existing_data)
                             ELSE NoResponse]
  /\ UNCHANGED Scripts

\* one image as processed: the fetch fails ("no_bytes": no labels, texts written from
\* the location alone), the text generation fails ("no_text"), or both succeed
Processed(url, outcome) ==
  [url |-> url, status |-> "processed", bytes_fetched |-> outcome # "no_bytes",
   labels |-> IF outcome = "no_bytes" THEN <<>> ELSE <<"Desk">>,
   alt_text |-> IF outcome = "no_text" THEN <<>> ELSE T_GenAlt,
   tooltip_text |-> IF outcome = "no_text" THEN <<>> ELSE T_GenTip]

\* one iteration of the loop over image_urls (lines 502-513)
RosieProcessImage ==
  /\ web.handler = "rosie_images"
  /\ web.pc = "process"
  /\ \E outcome \in {"ok", "no_bytes", "no_text"} :
       web' = [web EXCEPT
                 !.processed = Append(web.processed,
                                      Processed(web.req.image_urls[Len(web.processed) + 1],
                                                outcome)),
                 !.log = web.log \o <<"_fetch_image_bytes", "_detect_labels",
                                      "_generate_descriptions">>,
                 !.pc = IF Len(web.processed) + 1 = Len(web.req.image_urls)
                        THEN "update" ELSE "process"]
  /\ UNCHANGED Scripts

\* the slot one image updates, with the values that are set (lines 175-204): a field is
\* set when it exists in the CRM and the value is not empty
SlotUpdate(field_map, slot, image, old) ==
  IF slot \notin DOMAIN field_map THEN old
  ELSE [picture |-> IF "picture" \in field_map[slot] /\ Truthy(image.url)
                    THEN image.url ELSE old.picture,
        alt |-> IF "alt" \in field_map[slot] /\ Truthy(image.alt_text)
                THEN image.alt_text ELSE old.alt,
        tooltip |-> IF "tooltip" \in field_map[slot] /\ Truthy(image.tooltip_text)
                    THEN image.tooltip_text ELSE old.tooltip]

\* update_data holds a value for the slot
SlotHasUpdate(field_map, slot, image) ==
  /\ slot \in DOMAIN field_map
  /\ \/ "picture" \in field_map[slot] /\ Truthy(image.url)
     \/ "alt" \in field_map[slot] /\ Truthy(image.alt_text)
     \/ "tooltip" \in field_map[slot] /\ Truthy(image.tooltip_text)

\* update_data is not empty
HasUpdate(field_map, images, picture_number) ==
  IF picture_number # 0
  THEN images # <<>> /\ SlotHasUpdate(field_map, picture_number, images[1])
  ELSE \E s \in 1..10 : s <= Len(images) /\ SlotHasUpdate(field_map, s, images[s])

\* the deal after the PUT of update_data: one slot from the first image when a picture
\* number is given, else slots 1..N from the images by position
UpdatedDeal(crm, field_map, images, picture_number) ==
  [s \in 1..10 |->
     IF picture_number # 0
     THEN IF s = picture_number /\ images # <<>>
          THEN SlotUpdate(field_map, s, images[1], crm[s]) ELSE crm[s]
     ELSE IF s <= Len(images)
          THEN SlotUpdate(field_map, s, images[s], crm[s]) ELSE crm[s]]

\* _update_pipedrive_deal (line 517): False without token, without field keys, without
\* anything to update or when the PUT fails
RosieUpdateCrm ==
  /\ web.handler = "rosie_images"
  /\ web.pc = "update"
  /\ \E keys_ok \in BOOLEAN, put_ok \in BOOLEAN :
       LET field_map == get_pipedrive_field_keys(web.token, web.fields, keys_ok)
           updated == UpdatedDeal(web.crm, field_map, web.processed, web.picture_number)
           done == /\ web.token
                   /\ HasUpdate(field_map, web.processed, web.picture_number)
                   /\ put_ok
       IN web' = [web EXCEPT
                    !.crm = IF done THEN updated ELSE web.crm,
                    !.resp = [NoResponse EXCEPT !.pipedrive_updated = done],
                    !.log = Append(web.log, "_update_pipedrive_deal"),
                    !.pc = "sync"]
  /\ UNCHANGED Scripts

\* _sync_deal_to_wix (line 520) and the response (lines 522-531): the item of the deal
\* is saved from the CRM data, unless credentials are missing or a request fails
RosieSyncWix ==
  /\ web.handler = "rosie_images"
  /\ web.pc = "sync"
  /\ \E synced \in BOOLEAN :
       web' = [web EXCEPT
                 !.site = IF synced THEN {[_id |-> StrOf(web.deal_id), data |-> web.crm]}
                          ELSE web.site,
                 !.resp = [web.resp EXCEPT !.code = 200, !.images = web.processed,
                                           !.wix_synced = synced],
                 !.log = Append(web.log, "_sync_deal_to_wix"),
                 !.pc = "responded"]
  /\ UNCHANGED Scripts

(***************************************************************************)
(* routes/wix_sync.py: _sync_to_wix, the fresh replace of the website      *)
(* collection, called with the deals read from the CRM.                    *)
(***************************************************************************)
MaxDeals == 2

U_ph == <<"h","/","P","l","a","c","e","h","o","l","d","e","r",".","p","n","g">>

\* the deals as the CRM returns them: id, title and 'Picture 1'
PipedriveDeals ==
  { [id |-> 25, title |-> A_7Em, picture |-> U_3],
    [id |-> 31, title |-> A_9Oak, picture |-> U_ph],
    [id |-> 40, title |-> A_19Main, picture |-> None] }

\* the lists of at most n deals, each deal at most once
RECURSIVE DealLists(_)
DealLists(n) ==
  IF n = 0 THEN { <<>> }
  ELSE DealLists(n - 1)
       \cup { Append(l, d) : <<l, d>> \in {x \in DealLists(n - 1) \X PipedriveDeals :
                                            \A i \in 1..Len(x[1]) : x[1][i] # x[2]} }

\* _build_wix_payload and the wrapping of lines 320-324: _id is str(deal id); a picture
\* is kept unless it is empty or names a placeholder
WixItem(deal) ==
  [_id |-> StrOf(deal.id),
   data |-> [dealId |-> StrOf(deal.id), title |-> deal.title,
             dealPicture1 |-> IF /\ Truthy(deal.picture)
                                 /\ ~Contains(Lower(deal.picture),
                                              <<"p","l","a","c","e","h","o","l","d","e","r">>)
                              THEN deal.picture ELSE None]]

\* an item as an earlier sync left it
StaleItem(id) == [_id |-> StrOf(id), data |-> [dealId |-> StrOf(id), title |-> <<>>,
                                                dealPicture1 |-> None]]

\* the contents the collection may have before the call
SiteChoices == { {}, {StaleItem(25)}, {StaleItem(25), StaleItem(99)} }

\* bulk/items/remove: the items with these ids leave the collection
Remove(site, ids) == {x \in site : x._id \notin ids}

\* bulk/items/save: each item is inserted, or replaces the item with its _id
Save(site, items) == Remove(site, {x._id : x \in items}) \cup items

SyncCall(collection_id, credentials, deals, site) ==
  [handler |-> "_sync_to_wix", pc |-> "called", collection_id |-> collection_id,
   credentials |-> credentials, pipedrive_deals |-> deals, site |-> site, site0 |-> site,
   log |-> <<>>, remove |-> "none", error |-> FALSE, result |-> "none"]

\* lines 307-308: the call without collection id, credentials or deals returns an error
SyncStart ==
  /\ web.handler = "_sync_to_wix"
  /\ web.pc = "called"
  /\ web' = IF ~web.collection_id \/ ~web.credentials \/ web.pipedrive_deals = <<>>
            THEN [web EXCEPT !.pc = "returned", !.error = TRUE,
                             !.result = "Missing collection_id, credentials, or deals"]
            ELSE [web EXCEPT !.pc = "remove"]
  /\ UNCHANGED Scripts

\* variant of SyncRemove: a remove that fails ends the call with an error
SyncRemove_FailureAborts ==
  /\ web.handler = "_sync_to_wix"
  /\ web.pc = "remove"
  /\ \E outcome \in {"200", "404", "failed"} :
       web' = [web EXCEPT
                 !.site = IF outcome = "200"
                          THEN Remove(web.site, {StrOf(web.pipedrive_deals[i].id) :
                                                   i \in 1..Len(web.pipedrive_deals)})
                          ELSE web.site,
                 !.log = Append(web.log, "bulk/items/remove"),
                 !.remove = outcome,
                 !.error = outcome = "failed",
                 !.result = IF outcome = "failed" THEN "remove failed" ELSE "none",
                 !.pc = IF outcome = "failed" THEN "returned" ELSE "save"]
  /\ UNCHANGED Scripts

\* _delete_from_wix (lines 258-295, called at line 316): the items of the deals are
\* removed; a status other than 200 and 404 or a failing request is printed and ignored
SyncRemove ==
  /\ web.handler = "_sync_to_wix"
  /\ web.pc = "remove"
  /\ \E outcome \in {"200", "404", "failed"} :
       web' = [web EXCEPT
                 !.site = IF outcome = "200"
                          THEN Remove(web.site, {StrOf(web.pipedrive_deals[i].id) :
                                                   i \in 1..Len(web.pipedrive_deals)})
                          ELSE web.site,
                 !.log = Append(web.log, "bulk/items/remove"),
                 !.remove = outcome,
                 !.pc = "save"]
  /\ UNCHANGED Scripts

\* lines 318-364: the items are built and saved in one request; a failing request
\* raises inside the try and is returned as {"error": ...}
SyncSave ==
  /\ web.handler = "_sync_to_wix"
  /\ web.pc = "save"
  /\ \E save_ok \in BOOLEAN :
       web' = [web EXCEPT
                 !.site = IF save_ok
                          THEN Save(web.site, {WixItem(web.pipedrive_deals[i]) :
                                                 i \in 1..Len(web.pipedrive_deals)})
                          ELSE web.site,
                 !.log = Append(web.log, "bulk/items/save"),
                 !.error = ~save_ok,
                 !.result = IF save_ok THEN "bulkActionMetadata" ELSE "save failed",
                 !.pc = "returned"]
  /\ UNCHANGED Scripts

\* the service is given one request, or _sync_to_wix one list of deals
WebInit ==
  /\ web \in {Received(req, token, fields, crm, {}) :
               req \in RosieRequests, token \in BOOLEAN,
               fields \in FieldChoices, crm \in CrmChoices}
             \cup {SyncCall(collection_id, credentials, deals, site) :
                     collection_id \in BOOLEAN, credentials \in BOOLEAN,
                     deals \in DealLists(MaxDeals), site \in SiteChoices}
  /\ pure = NoPureCall
  /\ bucket = << >>
  /\ csv_rows = UnusedCsv
  /\ manual_overrides = NoOverrides
  /\ entry = "web"
  /\ dry_run = TRUE
  /\ config = "ok"
  /\ run = 1
  /\ pc = "start"
  /\ mappings = <<>>
  /\ resolved = {}
  /\ idx = 0
  /\ objects = <<>>
  /\ oi = 0
  /\ calls = <<>>
  /\ ops = <<>>
  /\ faults = <<>>
  /\ moves = <<>>
  /\ mi = 0

WebNext ==
  \/ RosieValidate
  \/ RosieGetAddress
  \/ RosieCacheCheck
  \/ RosieProcessImage
  \/ RosieUpdateCrm
  \/ RosieSyncWix
  \/ SyncStart
  \/ SyncRemove
  \/ SyncSave

WebSpec == WebInit /\ [][WebNext]_vars

(***************************************************************************)
(* Properties                                                              *)
(***************************************************************************)
Range(q) == {q[i] : i \in 1..Len(q)}

RestructureRun == entry \in {"main", "execute_restructure"}

FoldersOf(bkt, nb) == {k.folder : k \in {x \in DOMAIN bkt : x.nb = nb}}

\* positions in ops of the calls made by rename / delete call number c
OpsOfCall(c) == {i \in 1..Len(ops) : ops[i].call = c}

LastFault == faults[Len(faults)]

\* C1: in rename_s3_folder no source object of the folder is deleted before every object
\* listed for the folder has been copied to the target prefix; when a copy fails, the
\* call has made no delete, every listed source object is still in the bucket, and the
\* copies already made are at the destination.
C1_DeleteOnlyAfterAllCopies ==
  /\ \A i \in 1..Len(ops) :
       (ops[i].op = "delete" /\ ops[i].call > 0
          /\ calls[ops[i].call].fn = "rename_s3_folder")
       => \A k \in Range(calls[ops[i].call].objects) :
            \E j \in 1..(i - 1) :
              /\ ops[j].op = "copy"
              /\ ops[j].call = ops[i].call
              /\ ops[j].key = k
              /\ ops[j].dst = NewKey(k, calls[ops[i].call].new_name)
  /\ (pc = "raised" /\ LastFault.phase = "copy")
       => /\ \A i \in OpsOfCall(LastFault.call) : ops[i].op = "copy"
          /\ \A k \in Range(calls[LastFault.call].objects) :
               k \in DOMAIN bucket /\ bucket[k] = k
          /\ \A i \in OpsOfCall(LastFault.call) :
               ops[i].dst \in DOMAIN bucket /\ bucket[ops[i].dst] = bucket[ops[i].key]

\* the copy of the second object of a folder has failed after the first was copied
C1_Witness ==
  /\ pc = "raised"
  /\ LastFault.phase = "copy"
  /\ LastFault.oi = 2
  /\ Cardinality(OpsOfCall(LastFault.call)) = 1

\* the plan entries execute_restructure acts on
Executable(e) == e.mapping # NoMapping /\ ~LowConfidence(e.mapping)

\* C2: a failing copy or delete does not abort execute_restructure; when the program has
\* ended without being killed, every executable entry of the plan has been processed.
C2_FailureDoesNotAbort ==
  (RestructureRun /\ ~dry_run /\ pc \in {"done", "raised"} /\ idx > 0)
    => \A i \in 1..Len(mappings) :
         Executable(mappings[i])
           => \E c \in Range(calls) :
                c.run = run /\ c.nb = mappings[i].nb /\ c.old_name = mappings[i].folder

\* C3: in dry-run mode neither executor changes the bucket or issues a copy or delete.
C3_DryRunMutatesNothing == [][dry_run => (bucket' = bucket /\ ops' = ops)]_vars

\* a dry run of execute_restructure has returned for a plan holding an executable entry
C3_Witness ==
  /\ dry_run
  /\ entry = "execute_restructure"
  /\ pc = "done"
  /\ \E e \in Range(mappings) : Executable(e)

\* the objects of the interrupted call that it had not deleted yet
Stragglers(f) ==
  {k \in Range(calls[f.call].objects) :
     ~\E i \in OpsOfCall(f.call) : ops[i].op = "delete" /\ ops[i].key = k}

\* C4: after a rename was interrupted (exception or kill, in the copy or the delete loop),
\* a later run that completes re-discovers the old folder when objects are left in it and
\* ends with every object the interrupted call had listed present under the target
\* prefix and no object under the old prefix.
C4_InterruptedRenameResumes ==
  (RestructureRun /\ pc = "done")
    => \A n \in 1..Len(faults) :
         (faults[n].call > 0 /\ calls[faults[n].call].fn = "rename_s3_folder")
         => LET c == calls[faults[n].call]
            IN /\ \A k \in Range(c.objects) : NewKey(k, c.new_name) \in DOMAIN bucket
               /\ c.old_name \notin FoldersOf(bucket, c.nb)
               /\ Stragglers(faults[n]) # {}
                    => \E d \in Range(calls) :
                         /\ d.run > faults[n].run
                         /\ d.fn = "rename_s3_folder"
                         /\ d.nb = c.nb /\ d.old_name = c.old_name /\ d.new_name = c.new_name
                         /\ Range(d.objects) = Stragglers(faults[n])

\* a rename was killed in its delete loop after one delete of two, and the next run is done
C4_Witness ==
  /\ RestructureRun
  /\ pc = "done"
  /\ faults # <<>>
  /\ LastFault.kind = "kill"
  /\ LastFault.phase = "delete_src"
  /\ LastFault.oi = 2
  /\ Cardinality(Stragglers(LastFault)) = 1

\* C5: a folder whose name parses as an integer is never passed to find_best_match,
\* never enters the plan, and is never the source of a copy or the target of a delete.
C5_NumericFolderUntouched ==
  RestructureRun
    => /\ \A r \in resolved : ~IsInt(r.folder)
       /\ \A e \in Range(mappings) : ~IsInt(e.folder)
       /\ \A c \in Range(calls) : ~IsInt(c.old_name)
       /\ \A i \in 1..Len(ops) : ~IsInt(ops[i].key.folder)

\* a real run over a bucket with the numeric folder "25", for which an override exists,
\* has planned and is mutating the bucket, an object of "25" still as it was
C5_Witness ==
  /\ entry = "main"
  /\ mappings # <<>>
  /\ ops # <<>>
  /\ F_25 \in DOMAIN manual_overrides
  /\ \E k \in DOMAIN bucket : k.folder = F_25 /\ bucket[k] = k

\* C6: for a folder that is a key of the overrides find_best_match returns the override:
\* ("DELETE", 1.0, manual_deletion) for the sentinel, else (value, 1.0, manual_override).
C6_OverrideReturned ==
  \A r \in resolved :
    r.folder \in DOMAIN manual_overrides
      => IF manual_overrides[r.folder] = DELETE
         THEN r.result = Result(DELETE, ScoreOne, MANUAL_DELETION)
         ELSE r.result = Result(manual_overrides[r.folder], ScoreOne, MANUAL_OVERRIDE)

\* find_best_match was called for "12 Main Rd", overridden to "25" while the index holds
\* fuzzy candidates for it, and for "Old Dup", overridden to DELETE
C6_Witness ==
  /\ F_12Main \in DOMAIN manual_overrides
  /\ \E r \in resolved : r.folder = F_12Main
  /\ \E r \in resolved : r.folder = F_OldDup
  /\ \E i \in 1..Len(load_csv_mapping(csv_rows)) :
       load_csv_mapping(csv_rows)[i][1] = A_19Main

\* the plan entry of folder f in neighborhood nb carries the override's action
HasOverrideEntry(nb, f) ==
  \E e \in Range(mappings) :
    /\ e.nb = nb
    /\ e.folder = f
    /\ e.mapping = IF manual_overrides[f] = DELETE
                   THEN Result(DELETE, ScoreOne, MANUAL_DELETION)
                   ELSE Result(manual_overrides[f], ScoreOne, MANUAL_OVERRIDE)

\* C7 as stated: every inventory folder with an override gets the override's action in
\* the plan, also when its name parses as an integer.
C7_OverrideBeatsNumericSkip ==
  (RestructureRun /\ pc = "planned")
    => \A n \in 1..2 : \A f \in FoldersOf(bucket, neighborhoods[n]) :
         f \in DOMAIN manual_overrides => HasOverrideEntry(neighborhoods[n], f)

\* C7 amended: the numeric skip comes first.  A folder whose name parses as an integer
\* gets no plan entry even when it has an override; a folder whose name does not gets
\* the override's action.
C7_NumericSkipBeatsOverride ==
  (RestructureRun /\ pc = "planned")
    => \A n \in 1..2 : \A f \in FoldersOf(bucket, neighborhoods[n]) :
         f \in DOMAIN manual_overrides
           => IF IsInt(f)
              THEN ~\E e \in Range(mappings) : e.folder = f
              ELSE HasOverrideEntry(neighborhoods[n], f)

\* the plan was made for a bucket holding "25" and "12 Main Rd", both with an override
C7_Witness ==
  /\ RestructureRun
  /\ pc = "planned"
  /\ {F_25, F_12Main} \subseteq FoldersOf(bucket, neighborhoods[1])
  /\ {F_25, F_12Main} \subseteq DOMAIN manual_overrides

\* the reference index loaded from each of the CSV files
IndexOf == { <<c, load_csv_mapping(c)>> : c \in CsvChoices }

\* the reference index of the run
Index == (CHOOSE t \in IndexOf : t[1] = csv_rows)[2]

\* the positions of the index
Entries == 1..Len(Index)

\* find_best_match call r was for a folder without an override
NoOverride(r) == r.folder \notin DOMAIN manual_overrides

\* the index entries whose normalized address equals the normalized folder name
SameNormalized(f) == {i \in Entries : NormTable[Index[i][1]] = NormTable[f]}

\* C8: for a folder without an override, if normalize_address(folder) equals
\* normalize_address(address) of a row of the index, find_best_match returns that row's
\* deal id, score 1.0 and match kind "exact".
C8_EqualNormalizedIsExact ==
  \A r \in resolved :
    NoOverride(r)
      => \A i \in SameNormalized(r.folder) :
           /\ r.result.deal_id = Index[i][2]
           /\ ScoreEQ(r.result.score, ScoreOne)
           /\ r.result.matched_address = EXACT

\* find_best_match call r took the fuzzy path: no override, no exact key hit
FuzzyPath(r) == NoOverride(r) /\ ~DictHas(Index, NormTable[r.folder])

\* the similarity of index entry i to folder f, both normalized
ScoreOf(f, i) == SimTable[<<NormTable[f], NormTable[Index[i][1]]>>]

\* the entries with the maximum score for folder f
TopEntries(f) == {i \in Entries : \A j \in Entries : ScoreGE(ScoreOf(f, i), ScoreOf(f, j))}

First(S) == CHOOSE i \in S : \A j \in S : i <= j

\* C10: when the fuzzy scan accepts a match, the entry returned is the first in
\* insertion order of the entries that reach the maximum score.
\* (resolved grows only in the planning step, so the calls are examined in the state
\* that step leaves.)
C10_FirstOfTiesWins ==
  \A r \in resolved :
    (pc = "planned" /\ FuzzyPath(r) /\ r.result.deal_id # None)
      => /\ r.result.matched_address = Index[First(TopEntries(r.folder))][1]
         /\ r.result.deal_id = Index[First(TopEntries(r.folder))][2]

\* "12 Main Rd" was resolved on the fuzzy path against an index in which "19 Main St"
\* and "17 Main St" tie for the maximum score, and the earlier of the two was returned
C10_Witness ==
  \E r \in resolved :
    /\ r.folder = F_12Main
    /\ FuzzyPath(r)
    /\ \E i, j \in TopEntries(F_12Main) : i < j /\ r.result.matched_address = Index[i][1]

\* the plan entry came from the manual overrides
FromOverride(mapping) == mapping.matched_address \in {MANUAL_OVERRIDE, MANUAL_DELETION}

\* the non-dry execution of the plan has run through all entries in this run
ExecutedAll == RestructureRun /\ ~dry_run /\ pc = "done" /\ idx > 0

DeletesOf(c, k) == {i \in OpsOfCall(c) : ops[i].op = "delete" /\ ops[i].key = k}

\* C12: a delete_s3_folder call that has returned True has deleted every object it
\* listed under the folder and copied nothing, and the folder is no longer in the
\* listing of its neighborhood; a call whose listing was empty has returned False and
\* has deleted nothing.
C12_DeleteFolderEmptiesFolder ==
  \A c \in 1..Len(calls) :
    calls[c].fn = "delete_s3_folder"
      => /\ calls[c].ret = "True"
              => /\ \A k \in Range(calls[c].objects) : DeletesOf(c, k) # {}
                 /\ \A i \in OpsOfCall(c) : ops[i].op = "delete"
                 /\ calls[c].old_name
                      \notin Range(list_neighborhood_folders(bucket, calls[c].nb))
         /\ calls[c].objects = <<>>
              => calls[c].ret = "False" /\ OpsOfCall(c) = {}

\* delete_s3_folder has deleted the MaxObjs objects of "Old Dup" and returned True, and
\* a second call for the same folder has found nothing and returned False
C12_Witness ==
  \E c, d \in 1..Len(calls) :
    /\ c < d
    /\ calls[c].fn = "delete_s3_folder" /\ calls[d].fn = "delete_s3_folder"
    /\ calls[c].nb = calls[d].nb
    /\ calls[c].old_name = F_OldDup /\ calls[d].old_name = F_OldDup
    /\ Len(calls[c].objects) = MaxObjs
    /\ calls[c].ret = "True"
    /\ calls[d].objects = <<>>

\* C13: a rename_s3_folder call whose listing of the source folder was empty has made
\* no copy and no delete and has returned False.
C13_EmptyRenameDoesNothing ==
  \A c \in 1..Len(calls) :
    (calls[c].fn = "rename_s3_folder" /\ calls[c].objects = <<>>)
      => calls[c].ret = "False" /\ OpsOfCall(c) = {}

\* rename_s3_folder was called for a folder that holds no object, it has returned, and
\* the bucket holds nothing under the new name
C13_Witness ==
  /\ entry = "rename_s3_folder"
  /\ pc = "done"
  /\ bucket # << >>
  /\ calls # <<>>
  /\ calls[Len(calls)].objects = <<>>
  /\ calls[Len(calls)].new_name \notin FoldersOf(bucket, calls[Len(calls)].nb)

\* C14: under a fatal configuration (missing export, missing credentials) the run ends
\* in analyze_and_map: no plan is made, no rename or delete call, no copy or delete.
C14_ConfigFatalAbortsBeforeMutation ==
  config # "ok"
    => /\ pc \in {"start", "raised"}
       /\ ops = <<>>
       /\ calls = <<>>
       /\ mappings = <<>>

\* the real run of __main__ over a bucket with folders has ended with the exception
C14_Witness ==
  /\ entry = "main"
  /\ config # "ok"
  /\ pc = "raised"
  /\ DOMAIN bucket # {}
  /\ faults # <<>>

\* the positions of the run inside execute_restructure and the calls it makes
ExecutorSteps == {"exec", "copy", "delete_src", "delete_folder"}

\* C15: the steps outside the plan executor (loading the index, listing, matching,
\* analyze_and_map, display_summary) change no object and issue no copy or delete, and
\* the steps of the executor change neither the CSV rows, the overrides, nor the plan.
C15_OnlyExecutorMutates ==
  [][RestructureRun
       => /\ pc \notin ExecutorSteps => (bucket' = bucket /\ ops' = ops)
          /\ pc \in ExecutorSteps
               => /\ csv_rows' = csv_rows
                  /\ manual_overrides' = manual_overrides
                  /\ mappings' = mappings
                  /\ resolved' = resolved]_vars

\* the executor has finished after mutating the bucket, the plan it was given with a
\* deletion and an unmatched entry still as analyze_and_map made it
C15_Witness ==
  /\ ExecutedAll
  /\ ops # <<>>
  /\ \E e \in Range(mappings) : e.mapping.deal_id = DELETE
  /\ \E e \in Range(mappings) : e.mapping = NoMapping

HasGroup(s) == \E i, j \in 1..Len(s) : i < j /\ s[i] = "(" /\ s[j] = ")"

\* normalize_address was applied to pure.a and returned pure.out
NormalizeApplied == pure.fn = "normalize_address" /\ pure.phase \in {"applied", "reapplied"}

\* C17: the value of normalize_address holds no "*", no parenthetical group, no "#",
\* no ",", no two consecutive spaces, and no space at either end.
C17_NormalizedIsClean ==
  NormalizeApplied
    => /\ \A i \in 1..Len(pure.out) : pure.out[i] \notin {"*", "#", ","}
       /\ ~HasGroup(pure.out)
       /\ ~Contains(pure.out, <<" ", " ">>)
       /\ pure.out # <<>> => (Head(pure.out) # " " /\ pure.out[Len(pure.out)] # " ")

\* normalize_address was applied to a string with a comma and then a group, and
\* returned a non-empty string
C17_Witness ==
  /\ NormalizeApplied
  /\ HasGroup(pure.a)
  /\ Contains(pure.a, <<",">>)
  /\ pure.out # <<>>

\* C18: normalize_address is idempotent: applied to its own value it returns that value.
C18_NormalizeIdempotent ==
  (pure.fn = "normalize_address" /\ pure.phase = "reapplied") => pure.again = pure.out

\* w is one of the space-separated words of s
HasToken(s, w) == Contains(<<" ">> \o s \o <<" ">>, <<" ">> \o w \o <<" ">>)

\* words that begin with the abbreviation "Pl"
LongerWords == { <<"P", "l", "a", "z", "a">>, <<"P", "l", "a", "c", "e">> }

\* C19: an abbreviation is expanded only as a whole token: a word of the input that
\* merely begins with "Pl" ("Plaza", "Place") is a word of the value returned.
C19_AbbreviationWholeToken ==
  NormalizeApplied
    => \A w \in LongerWords :
         (HasToken(pure.a, w) /\ ~HasGroup(pure.a)) => HasToken(pure.out, w)

\* C20: similarity_score(a, b) = similarity_score(b, a).
C20_SimilaritySymmetric ==
  (pure.fn = "similarity_score" /\ pure.phase = "reapplied")
    => ScoreEQ(pure.out, pure.again)

\* the row is kept by load_csv_mapping: its id and its address are non-empty once stripped
KeptRow(r) == Strip(r.id) # <<>> /\ Strip(r.address) # <<>>

\* the address key of a row: the stripped address without its asterisks
RowKey(r) == Replace(Replace(Strip(r.address), <<"*", "*">>, <<>>), <<"*">>, <<>>)

\* the positions of the kept rows of the export
KeptRows == {i \in 1..Len(csv_rows) : KeptRow(csv_rows[i])}

\* rows and the index loaded from them agree: every kept row's address key is in the
\* index with the id of the last kept row of that key, and the index has one entry per
\* key, each from a kept row
LastRowWins(rows, index) ==
  LET kept == {i \in 1..Len(rows) : KeptRow(rows[i])}
  IN /\ \A i \in kept :
          /\ DictHas(index, RowKey(rows[i]))
          /\ DictGet(index, RowKey(rows[i])) =
               Strip(rows[CHOOSE j \in kept :
                            /\ RowKey(rows[j]) = RowKey(rows[i])
                            /\ \A k \in kept :
                                 RowKey(rows[k]) = RowKey(rows[i]) => k <= j].id)
     /\ \A n \in 1..Len(index) :
          /\ \E i \in kept : RowKey(rows[i]) = index[n][1]
          /\ \A m \in 1..Len(index) : index[m][1] = index[n][1] => m = n

\* LastRowWins of every CSV file and its loaded index, computed once
LastRowWinsOf == { <<t[1], LastRowWins(t[1], t[2])>> : t \in IndexOf }

\* C21: load_csv_mapping skips the rows whose deal id or address is empty; the index
\* holds one entry per address key of the kept rows, with the id of the last kept row
\* of that key.
C21_LastRowWins ==
  (RestructureRun /\ pc = "planned")
    => (CHOOSE t \in LastRowWinsOf : t[1] = csv_rows)[2]

\* the plan was made from an export with a row without id and two kept rows of one
\* address with different ids
C21_Witness ==
  /\ RestructureRun
  /\ pc = "planned"
  /\ \E i \in 1..Len(csv_rows) : ~KeptRow(csv_rows[i])
  /\ \E i, j \in KeptRows :
       /\ i < j
       /\ RowKey(csv_rows[i]) = RowKey(csv_rows[j])
       /\ csv_rows[i].id # csv_rows[j].id
       /\ DictGet(Index, RowKey(csv_rows[i])) = Strip(csv_rows[j].id)

\* the folders of the bucket that int() rejects, as <<neighborhood, folder>>
NonNumericFolders ==
  {f \in {<<k.nb, k.folder>> : k \in DOMAIN bucket} : ~IsInt(f[2])}

\* the positions of the plan entries of folder f
EntriesOf(f) == {i \in 1..Len(mappings) : mappings[i].nb = f[1] /\ mappings[i].folder = f[2]}

\* C22: every non-numeric folder of the inventory has exactly one plan entry, and the
\* renamed, deleted and could-not-be-mapped counts of display_summary sum to the number
\* of non-numeric folders; the low-confidence count is part of the renamed count.
C22_EveryFolderCounted ==
  (RestructureRun /\ pc = "planned")
    => /\ \A f \in NonNumericFolders : Cardinality(EntriesOf(f)) = 1
       /\ Len(mappings) = Cardinality(NonNumericFolders)
       /\ LET s == display_summary(mappings)
          IN /\ s[1] + s[2] + s[3] = Cardinality(NonNumericFolders)
             /\ s[4] <= s[1]

\* the plan of a bucket with two non-numeric folders: one renamed on a low-confidence
\* match, one that could not be mapped
C22_Witness ==
  /\ RestructureRun
  /\ pc = "planned"
  /\ Cardinality(NonNumericFolders) = 2
  /\ display_summary(mappings) = <<1, 0, 1, 1>>

\* the calls of rename_s3_folder / delete_s3_folder made by run n of the program
CallsOfRun(n) == {c \in 1..Len(calls) : calls[c].run = n}

\* C23: when the executing run met no exception and was not interrupted, a second run
\* over the resulting bucket with the same export and overrides issues no copy and no
\* delete: every storage call recorded belongs to the first run.
C23_RerunIssuesNothing ==
  (RestructureRun /\ ~dry_run /\ faults = <<>>)
    => \A i \in 1..Len(ops) : ops[i].call \in CallsOfRun(1)

\* the second run of execute_restructure has ended; the first had renamed one folder
\* and deleted another, each call returning True
C23_Witness ==
  /\ entry = "execute_restructure"
  /\ ~dry_run
  /\ faults = <<>>
  /\ run = 2
  /\ pc = "done"
  /\ \E c, d \in CallsOfRun(1) :
       /\ calls[c].fn = "rename_s3_folder" /\ calls[c].ret = "True"
       /\ calls[d].fn = "delete_s3_folder" /\ calls[d].ret = "True"

\* C24: no copy of a rename overwrites an object: a step of the restructuring leaves
\* every key that it keeps with the content the key held before, so the objects of two
\* folders that are renamed to one target, or of a target that already exists, are all
\* still held under the target prefix.
C24_NoCopyOverwrites ==
  [][RestructureRun
       => \A k \in DOMAIN bucket \cap DOMAIN bucket' : bucket'[k] = bucket[k]]_vars

\* rename_s3_folder / delete_s3_folder call c was made for a folder with an override
CallHasOverride(c) == calls[c].old_name \in DOMAIN manual_overrides

\* the values of find_best_match for the folder of call c
ResolvedFor(c) == {r \in resolved : r.folder = calls[c].old_name}

\* C25: delete_s3_folder is called only for a folder whose override is "DELETE", and
\* rename_s3_folder for a folder without override only on a match of score 0.8 or more:
\* no deal id and no address of the index causes a deletion or passes the 0.8 gate.
C25_DeleteOnlyByOverride ==
  RestructureRun
    => \A c \in 1..Len(calls) :
         /\ calls[c].fn = "delete_s3_folder"
              => CallHasOverride(c) /\ manual_overrides[calls[c].old_name] = DELETE
         /\ (calls[c].fn = "rename_s3_folder" /\ ~CallHasOverride(c))
              => \A r \in ResolvedFor(c) : ScoreGE(r.result.score, EightTenths)

\* the plan of the run holds a folder that could not be mapped
SomeUnmapped == \E i \in 1..Len(mappings) : mappings[i].mapping = NoMapping

\* C26: in the main flow execute_restructure is entered only for a plan without unmapped
\* folder: a run of __main__ whose plan has one ends without any rename_s3_folder or
\* delete_s3_folder call, hence without copy or delete.
C26_ExecutionGated ==
  (entry = "main" /\ SomeUnmapped)
    => /\ pc \in {"planned", "done"}
       /\ CallsOfRun(run) = {}
       /\ \A i \in 1..Len(ops) : calls[ops[i].call].run < run

\* __main__ has ended without a storage call on a plan with one unmapped folder and one
\* folder matched with high confidence
C26_Witness ==
  /\ entry = "main"
  /\ pc = "done"
  /\ run = 1
  /\ ops = <<>>
  /\ SomeUnmapped
  /\ \E i \in 1..Len(mappings) :
       mappings[i].mapping # NoMapping /\ ~LowConfidence(mappings[i].mapping)

\* the exceptions met by the current run of execute_redistribution
MoveFaults ==
  {i \in 1..Len(faults) : faults[i].run = run /\ faults[i].call = 0 /\ faults[i].kind # "kill"}

\* move m of the plan was copied to its destination
Copied(m) ==
  \E i \in 1..Len(ops) :
    /\ ops[i].op = "copy"
    /\ ops[i].key = moves[m].source_key
    /\ ops[i].dst = moves[m].dest_key

\* C27: execute_redistribution with dry_run false deletes a source only right after the
\* copy of the same source succeeded; when the copy of a move raises, its source is
\* left in place with its content, the exception is caught and recorded, and the loop
\* goes on: once the loop has ended every other move has been copied.
C27_MoveDeletesAfterCopy ==
  (entry = "redistribution" /\ ~dry_run)
    => /\ \A i \in 1..Len(ops) :
            ops[i].op = "delete"
              => i > 1 /\ ops[i - 1].op = "copy" /\ ops[i - 1].key = ops[i].key
       /\ \A f \in MoveFaults :
            /\ faults[f].kind = "caught"
            /\ faults[f].phase = "move"
                 => /\ moves[faults[f].idx].source_key \in DOMAIN bucket
                    /\ bucket[moves[faults[f].idx].source_key]
                         = moves[faults[f].idx].source_key
       /\ pc \in {"done", "raised"}
            => \A m \in 1..Len(moves) :
                 Copied(m) \/ \E f \in MoveFaults : faults[f].idx = m

\* the loop has ended; the copy of the first move had raised and a later move was made
C27_Witness ==
  /\ entry = "redistribution"
  /\ ~dry_run
  /\ pc = "done"
  /\ run = 1
  /\ \E f \in MoveFaults : faults[f].phase = "move" /\ faults[f].idx = 1
  /\ Len(moves) > 1
  /\ Copied(2)
  /\ moves[2].source_key \notin DOMAIN bucket

\* the picture URLs of row r name the file
RowNames(r, filename) ==
  \E n \in 1..Len(r.pictures) :
    Strip(r.pictures[n]) # <<>> /\ UrlFilename(Strip(r.pictures[n])) = filename

\* the first row of the export, among those with a deal id, that names the file
FirstRowOf(filename) ==
  CHOOSE i \in 1..Len(csv_rows) :
    /\ csv_rows[i].id # <<>> /\ RowNames(csv_rows[i], filename)
    /\ \A j \in 1..(i - 1) : ~(csv_rows[j].id # <<>> /\ RowNames(csv_rows[j], filename))

\* C28: every move of the plan is for a file that the export names, goes to the deal
\* folder and the in-scope neighborhood of the first row naming it, and leaves a
\* different (neighborhood, deal folder); and once all the moves of the plan have been
\* executed without exception, planning again over the resulting bucket gives no move.
\* (moves is written only by the planning step, so the plan is examined in the state
\* that step leaves.)
C28_PlanConverges ==
  entry = "redistribution"
    => /\ \A m \in 1..Len(moves) :
            (pc = "move" /\ mi = 1) =>
            /\ \E i \in 1..Len(csv_rows) :
                 csv_rows[i].id # <<>> /\ RowNames(csv_rows[i], moves[m].filename)
            /\ moves[m].to_deal = csv_rows[FirstRowOf(moves[m].filename)].id
            /\ moves[m].to_neighborhood
                 = map_neighborhood(csv_rows[FirstRowOf(moves[m].filename)].neighborhood)
            /\ moves[m].to_neighborhood # ""
            /\ <<moves[m].source_key.nb, moves[m].source_key.folder>>
                 # <<moves[m].to_neighborhood, moves[m].to_deal>>
            /\ moves[m].dest_key
                 = Key(moves[m].to_neighborhood, moves[m].to_deal, moves[m].filename)
       /\ (pc = "done" /\ ~dry_run /\ faults = <<>>)
            => create_redistribution_plan(parse_csv_image_mapping(csv_rows),
                                          get_current_s3_inventory(bucket)) = <<>>

\* two or more moves were planned, all were executed, and the loop has ended without
\* exception
C28_Witness ==
  /\ entry = "redistribution"
  /\ ~dry_run
  /\ pc = "done"
  /\ faults = <<>>
  /\ Len(moves) > 1
  /\ \A m \in 1..Len(moves) : Copied(m) /\ moves[m].source_key \notin DOMAIN bucket

\* the handler has answered a valid request
RosieAnswered ==
  web.handler = "rosie_images" /\ web.pc = "responded" /\ web.resp.code = 200

\* the helpers that process an image, update the CRM and sync the website
ProcessingHelpers ==
  {"_fetch_image_bytes", "_detect_labels", "_generate_descriptions",
   "_update_pipedrive_deal", "_sync_deal_to_wix"}

\* the handler called none of the processing helpers and changed neither CRM nor website
NothingProcessed ==
  /\ \A i \in 1..Len(web.log) : web.log[i] \notin ProcessingHelpers
  /\ web.processed = <<>>
  /\ web.crm = web.crm0
  /\ web.site = {}

\* the handler processed every image, then called the CRM update and the website sync
AllProcessed ==
  /\ Len(web.processed) = Len(web.req.image_urls)
  /\ web.resp.images = web.processed
  /\ \E i, j \in 1..Len(web.log) :
       i < j /\ web.log[i] = "_update_pipedrive_deal" /\ web.log[j] = "_sync_deal_to_wix"

\* the response is the cache hit carrying the texts alt and tooltip
CacheHit(alt, tooltip) ==
  /\ web.resp.cached
  /\ ~web.resp.pipedrive_updated
  /\ Len(web.resp.images) = 1
  /\ web.resp.images[1].status = "cached"
  /\ web.resp.images[1].alt_text = alt
  /\ web.resp.images[1].tooltip_text = tooltip

\* with force_refresh true the cache check is not made and the request is processed
ForcedRefreshProcesses ==
  web.force_refresh
    => /\ \A i \in 1..Len(web.log) : web.log[i] # "_check_pipedrive_slot_populated"
       /\ ~web.resp.cached
       /\ AllProcessed

\* the cache lookup of the request could read the slot: the token is set, the field list
\* was read and names the alt and tooltip fields of the slot, the deal was read
LookupSucceeded ==
  /\ web.token
  /\ web.reads_ok
  /\ web.picture_number \in DOMAIN web.fields
  /\ {"alt", "tooltip"} \subseteq web.fields[web.picture_number]

\* C29 as stated: with force_refresh false and both texts of the addressed slot
\* non-empty in the CRM, the stored texts are returned with cached = true and nothing is
\* processed; with force_refresh true the check is skipped and the request processed.
C29_CacheHitWhenPopulated ==
  RosieAnswered
    => /\ ( /\ ~web.force_refresh
            /\ web.picture_number \in 1..10
            /\ Truthy(web.crm0[web.picture_number].alt)
            /\ Truthy(web.crm0[web.picture_number].tooltip) )
         => /\ CacheHit(web.crm0[web.picture_number].alt,
                        web.crm0[web.picture_number].tooltip)
            /\ NothingProcessed
       /\ ForcedRefreshProcesses

\* C29, amended: with force_refresh false, both texts of the addressed slot non-empty
\* once stripped, and a cache lookup that succeeds, the stripped stored texts are
\* returned with cached = true and nothing is processed; a response is cached only in
\* that case; with force_refresh true the check is skipped and the request processed.
C29_CacheHitWhenLookupSucceeds ==
  RosieAnswered
    => /\ ( /\ ~web.force_refresh
            /\ web.picture_number \in 1..10
            /\ StoredText(web.crm0[web.picture_number].alt) # <<>>
            /\ StoredText(web.crm0[web.picture_number].tooltip) # <<>>
            /\ LookupSucceeded )
         => /\ CacheHit(StoredText(web.crm0[web.picture_number].alt),
                        StoredText(web.crm0[web.picture_number].tooltip))
            /\ NothingProcessed
       /\ web.resp.cached
            => /\ ~web.force_refresh
               /\ web.picture_number \in 1..10
               /\ StoredText(web.crm0[web.picture_number].alt) # <<>>
               /\ StoredText(web.crm0[web.picture_number].tooltip) # <<>>
               /\ LookupSucceeded
       /\ ForcedRefreshProcesses

\* a request without picture number for the single image "3.jpeg" was answered from
\* the CRM, whose slot 3 holds a tooltip with surrounding spaces
C29_Witness ==
  /\ RosieAnswered
  /\ web.resp.cached
  /\ web.req.picture_number = None
  /\ web.picture_number = 3
  /\ web.crm0[3].tooltip = T_DeskPadded
  /\ web.resp.images[1].tooltip_text = T_Desk
  /\ web.address # None

\* the deals given to the call
SyncedDeals == {web.pipedrive_deals[i] : i \in 1..Len(web.pipedrive_deals)}

====
